---------------------------- MODULE Spec2Model ----------------------------
(***************************************************************************)
(* A model of the consent web token library (didomi/cwt-node).             *)
(*                                                                         *)
(* Two generations of the CWT class are modelled:                          *)
(*   - src/src/token.js: the status-based token (setConsentStatus,         *)
(*     getConsentStatus, toCompressedJSON, CWTFromCompressedJSON), held in *)
(*     the variable token and driven by the specification Spec;            *)
(*   - src/unnamed/part_001 with src/src/consent.js and                    *)
(*     src/unnamed/part_000: the scope-based token (addConsent,            *)
(*     hasConsent, Consent, Vendor), held in the variable scopeToken and   *)
(*     driven by the specification SpecScope.                              *)
(*                                                                         *)
(* Further specifications drive parts of the library on their own:         *)
(* SpecParse the four parsing functions of src/src/token.js on well-formed *)
(* and malformed inputs, SpecVendor the class Vendor, SpecConsent          *)
(* Consent.fromObject, SpecMutate the mutating operations called with      *)
(* empty or absent identifiers, SpecMigrate the version migrators, whose   *)
(* code is not among the sources, SpecLifecycle a client that constructs,  *)
(* changes, serializes and parses tokens with any schema version and any   *)
(* user id, and SpecOwnership a caller that keeps the arrays it hands to   *)
(* the constructors, held in the variable mem.                             *)
(*                                                                         *)
(* JavaScript values are modelled as follows.  Identifiers and statuses    *)
(* are strings; null and undefined are the strings Null and Undefined; the *)
(* booleans true and false stored in a token are JsTrue and JsFalse.  A    *)
(* property that is absent from an object reads as Undefined, as in        *)
(* JavaScript.  Identifiers are ordinary strings: none is the name of a    *)
(* member of Object.prototype and none is an array index.                  *)
(***************************************************************************)
EXTENDS Integers, Sequences, FiniteSets, TLC

VARIABLES
    token,       \* the CWT of src/src/token.js held by the client, or NullCWT
    origin,      \* how token was obtained, while it is still unmodified
    last,        \* the most recent call: its name, arguments and return value
    calls,       \* number of mutating calls made by the client
    scopeToken,  \* the CWT of src/unnamed/part_001 held by the client
    written,     \* per (purpose, vendor): the statuses the client has set on token
    scopedVendor, \* the Vendor of src/unnamed/part_000 held by the client
    mem          \* the arrays a caller shares with the tokens and vendors it constructs

vars == <<token, origin, last, calls, scopeToken, written, scopedVendor, mem>>

---------------------------------------------------------------------------
(* JavaScript values *)

Null == "null"
Undefined == "undefined"
JsTrue == "true"
JsFalse == "false"

\* The model bound: how many mutating calls a client makes on its tokens.
MaxCalls == 3

\* x || null on a string-or-absent property (src/src/token.js:33).
OrNull(x) == IF x \in {Undefined, Null, ""} THEN Null ELSE x

\* Values that are not strings carry their type in the field t, so that a
\* property may hold an array, an object or nothing at all.
JUndefined == [t |-> "undefined"]
JArray(seq) == [t |-> "array", v |-> seq]
JObject(fields) == [t |-> "object", v |-> fields]

JNull == [t |-> "null"]
JNumber(n) == [t |-> "number", v |-> n]
\* A string value that is not an identifier: the sequence of its characters.
JString(chars) == [t |-> "string", v |-> chars]

\* A string value in the place of an identifier, possibly the empty string.
JId(s) == [t |-> "id", v |-> s]

\* ToBoolean on a tagged value: arrays and objects are truthy, also when empty;
\* undefined, null, 0 and the empty string are falsy.
Truthy(x) ==
    \/ x.t \in {"array", "object"}
    \/ x.t = "number" /\ x.v # 0
    \/ x.t = "string" /\ x.v # <<>>
    \/ x.t = "id" /\ x.v # ""

\* typeof x === 'string'
IsString(x) == x.t \in {"string", "id"}

\* The values of the own properties of an object, in the order of its keys.
RECURSIVE OwnValues(_, _)
OwnValues(fields, keys) ==
    IF keys = {} THEN <<>>
    ELSE LET k == CHOOSE x \in keys : TRUE
         IN  <<fields[k]>> \o OwnValues(fields, keys \ {k})

\* for (const i in x) { if (x.hasOwnProperty(i)) ... x[i] ... }: the values the
\* loop visits.  An array gives its elements, a string its characters, an
\* object the values of its own properties, a number nothing.
ForIn(x) ==
    IF x.t \in {"array", "string"} THEN x.v
    ELSE IF x.t = "object" THEN OwnValues(x.v, DOMAIN x.v)
    ELSE <<>>

\* A JavaScript object used as a map: a function from its own keys.
EmptyObject == <<>>
Put(obj, k, v) == [x \in (DOMAIN obj) \cup {k} |-> IF x = k THEN v ELSE obj[x]]
Get(obj, k) == IF k \in DOMAIN obj THEN obj[k] ELSE Undefined

\* Array.prototype.find as an index: the first i with seq[i].purpose = p, or 0.
RECURSIVE FindFrom(_, _, _, _)
FindFrom(seq, field, value, i) ==
    IF i > Len(seq) THEN 0
    ELSE IF seq[i][field] = value THEN i
    ELSE FindFrom(seq, field, value, i + 1)

\* The purposes a consents list holds.
PurposesOfList(consents) == {consents[i].purpose : i \in DOMAIN consents}

FindConsent(consents, purpose) == FindFrom(consents, "purpose", purpose, 1)
FindVendor(vendors, id) == FindFrom(vendors, "id", id, 1)

\* The duplicate-free sequences over a finite set.
RECURSIVE NoDupSeqs(_)
NoDupSeqs(S) ==
    IF S = {} THEN {<<>>}
    ELSE {<<>>} \cup UNION {{<<x>> \o s : s \in NoDupSeqs(S \ {x})} : x \in S}

Range(seq) == {seq[i] : i \in DOMAIN seq}

---------------------------------------------------------------------------
(* Identifier universes *)

PurposeIds == {"cookies", "analytics"}
VendorIds == {"didomi", "*"}
QueryVendorIds == VendorIds \cup {"liveramp"}
StatusValues == {JsTrue, JsFalse}
Issuers == {Undefined, "didomi"}

---------------------------------------------------------------------------
(* src/src/token.js: class CWT *)

NullCWT == [null |-> TRUE]

\* Variant of the constructor that takes the version of its argument:
\* this.version = tokenContent.version || 1.
CWT_VersionOfContent(tokenContent) ==
    [null |-> FALSE,
     issuer |-> OrNull(tokenContent.issuer),
     user_id |-> OrNull(tokenContent.user_id),
     user_id_type |-> OrNull(tokenContent.user_id_type),
     user_id_hash_method |-> OrNull(tokenContent.user_id_hash_method),
     consents |-> IF Truthy(tokenContent.consents) THEN tokenContent.consents.v
                  ELSE <<>>,
     version |-> IF "version" \in DOMAIN tokenContent /\ Truthy(tokenContent.version)
                 THEN tokenContent.version.v ELSE 1]

\* new CWT(tokenContent)
CWT(tokenContent) ==
    [null |-> FALSE,
     issuer |-> OrNull(tokenContent.issuer),
     user_id |-> OrNull(tokenContent.user_id),
     user_id_type |-> OrNull(tokenContent.user_id_type),
     user_id_hash_method |-> OrNull(tokenContent.user_id_hash_method),
     consents |-> IF Truthy(tokenContent.consents) THEN tokenContent.consents.v
                  ELSE <<>>,
     version |-> 1]

\* Variant of setConsentStatus that does not look for an existing vendor
\* entry: it always pushes a new one.
setConsentStatus_AlwaysPush(consents, status, purpose, vendorId) ==
    LET ci == FindConsent(consents, purpose)
        withConsent == IF ci = 0
                       THEN Append(consents, [purpose |-> purpose, vendors |-> <<>>])
                       ELSE consents
        c == IF ci = 0 THEN Len(withConsent) ELSE ci
    IN  [withConsent EXCEPT
            ![c].vendors = Append(@, [id |-> vendorId, status |-> status])]

\* Variant of setConsentStatus that writes the status to every vendor entry
\* of the consent.
setConsentStatus_WholeConsent(consents, status, purpose, vendorId) ==
    LET ci == FindConsent(consents, purpose)
        withConsent == IF ci = 0
                       THEN Append(consents, [purpose |-> purpose, vendors |-> <<>>])
                       ELSE consents
        c == IF ci = 0 THEN Len(withConsent) ELSE ci
        vi == FindVendor(withConsent[c].vendors, vendorId)
        withVendor == IF vi = 0
                      THEN Append(withConsent[c].vendors,
                                  [id |-> vendorId, status |-> Undefined])
                      ELSE withConsent[c].vendors
    IN  [withConsent EXCEPT
            ![c].vendors = [j \in DOMAIN withVendor |->
                               [withVendor[j] EXCEPT !.status = status]]]

\* CWT.setConsentStatus(status, purpose, vendorId), on the consents list
setConsentStatus(consents, status, purpose, vendorId) ==
    LET ci == FindConsent(consents, purpose)
        withConsent == IF ci = 0
                       THEN Append(consents, [purpose |-> purpose, vendors |-> <<>>])
                       ELSE consents
        c == IF ci = 0 THEN Len(withConsent) ELSE ci
        vi == FindVendor(withConsent[c].vendors, vendorId)
        withVendor == IF vi = 0
                      THEN Append(withConsent[c].vendors,
                                  [id |-> vendorId, status |-> Undefined])
                      ELSE withConsent[c].vendors
        v == IF vi = 0 THEN Len(withVendor) ELSE vi
    IN  [withConsent EXCEPT ![c].vendors = [withVendor EXCEPT ![v].status = status]]

\* Variant of getConsentStatus without the fallback to the wildcard vendor.
getConsentStatus_NoCatchAll(consents, purpose, vendorId) ==
    LET ci == FindConsent(consents, purpose)
    IN  IF ci # 0
        THEN LET vendors == consents[ci].vendors
                 vi == FindVendor(vendors, vendorId)
             IN  IF vi # 0 THEN vendors[vi].status ELSE Undefined
        ELSE Undefined

\* CWT.getConsentStatus(purpose, vendorId)
getConsentStatus(consents, purpose, vendorId) ==
    LET ci == FindConsent(consents, purpose)
    IN  IF ci # 0
        THEN LET vendors == consents[ci].vendors
                 vi == FindVendor(vendors, vendorId)
                 vendorCatchAll == FindVendor(vendors, "*")
             IN  IF vi # 0 THEN vendors[vi].status
                 ELSE IF vendorCatchAll # 0 THEN vendors[vendorCatchAll].status
                 ELSE Undefined
        ELSE Undefined

---------------------------------------------------------------------------
(* JSON texts.  A text is the empty string, a text that JSON.parse rejects,
   or the serialization of a value; a serialized value is kept as the value
   JSON.parse gives back for it. *)

EmptyString == [kind |-> "empty"]
\* No argument, null or undefined in the place of the text.
AbsentString == [kind |-> "absent"]
InvalidJSON == [kind |-> "invalid"]
NoText == [kind |-> "none"]

\* JSON.stringify of an array of identifiers: undefined becomes null.
StringifyIds(ids) == [i \in DOMAIN ids |-> IF ids[i] = Undefined THEN Null ELSE ids[i]]

\* JSON.stringify(serializedToken) (src/src/token.js:190)
JSONstringifyCompressed(obj) ==
    [kind |-> "json",
     root |-> [issuer |-> obj.issuer,
               user_id |-> obj.user_id,
               user_id_type |-> obj.user_id_type,
               user_id_hash_method |-> obj.user_id_hash_method,
               version |-> JNumber(obj.version),
               consents |-> JUndefined,
               purposes |-> JObject([enabled |-> JArray(StringifyIds(obj.purposes.enabled)),
                                     disabled |-> JArray(StringifyIds(obj.purposes.disabled))]),
               vendors |-> JObject([enabled |-> JArray(StringifyIds(obj.vendors.enabled)),
                                    disabled |-> JArray(StringifyIds(obj.vendors.disabled))])]]

\* !jsonString
IsEmptyString(text) == text.kind \in {"empty", "absent"}
\* JSON.parse(jsonString) throws
ParseThrows(text) == text.kind # "json"
\* JSON.parse(jsonString)
JSONparse(text) == text.root

\* The type of a parsed root, or of an argument.  An object is the record of
\* its fields; any other value is a tagged value.
RootKind(root) == IF "t" \in DOMAIN root THEN root.t ELSE "object"
\* object.consents and the like on a parsed root that is not null: a root that
\* is not an object has none of these properties.
Field(object, name) == IF RootKind(object) = "object" THEN object[name] ELSE JUndefined
\* The exception a property access on null raises, in the place of a result.
TypeError == [thrown |-> "TypeError"]

\* object.purposes.enabled and the like: a property of a property
Prop(x, name) == IF x.t = "object" THEN x.v[name] ELSE JUndefined

---------------------------------------------------------------------------
(* CWT.toCompressedJSON *)

\* Variant of disabledPurpose that tests !vendor.status: an unset status counts
\* as false.
disabledPurpose_Falsy(vendors) ==
    \A i \in DOMAIN vendors : vendors[i].status # JsTrue

\* lines 132-140: disabledPurpose after the loop over the purpose's vendors
disabledPurpose(vendors) ==
    \A i \in DOMAIN vendors : vendors[i].status = JsFalse

\* lines 133-151: statusByVendor after the loop over one purpose's vendors.
\* statusByVendor is kept as its keys in insertion order (Object.keys) and
\* the purposes object of every key.
RECURSIVE recordVendors(_, _, _)
recordVendors(statusByVendor, purpose, vendors) ==
    IF vendors = <<>> THEN statusByVendor
    ELSE LET vendor == Head(vendors)
             created == IF vendor.id \in DOMAIN statusByVendor.purposes
                        THEN statusByVendor
                        ELSE [keys |-> Append(statusByVendor.keys, vendor.id),
                              purposes |-> Put(statusByVendor.purposes, vendor.id,
                                               EmptyObject)]
             stored == [created EXCEPT
                           !.purposes[vendor.id] = Put(@, purpose, vendor.status)]
         IN  recordVendors(stored, purpose, Tail(vendors))

\* lines 123-159: the loop over the consents, on acc = the purposes lists and
\* statusByVendor built so far
RECURSIVE classifyPurposes(_, _)
classifyPurposes(consents, acc) ==
    IF consents = <<>> THEN acc
    ELSE LET purpose == Head(consents).purpose
             vendors == Head(consents).vendors
             next == [enabled |-> IF disabledPurpose(vendors) THEN acc.enabled
                                  ELSE Append(acc.enabled, purpose),
                      disabled |-> IF disabledPurpose(vendors)
                                   THEN Append(acc.disabled, purpose)
                                   ELSE acc.disabled,
                      statusByVendor |-> recordVendors(acc.statusByVendor, purpose, vendors)]
         IN  classifyPurposes(Tail(consents), next)

\* Variant of enabledVendor that tests !== false: a vendor without an entry
\* under an enabled purpose passes.
enabledVendor_NotFalse(statusByVendor, vendorIdString, enabledPurposes) ==
    \A i \in DOMAIN enabledPurposes :
        Get(statusByVendor.purposes[vendorIdString], enabledPurposes[i]) # JsFalse

\* lines 170-181: enabledVendor after the loop over the enabled purposes
enabledVendor(statusByVendor, vendorIdString, enabledPurposes) ==
    \A i \in DOMAIN enabledPurposes :
        Get(statusByVendor.purposes[vendorIdString], enabledPurposes[i]) = JsTrue

\* lines 163-188: the loop over Object.keys(statusByVendor)
RECURSIVE classifyVendors(_, _, _, _)
classifyVendors(keys, statusByVendor, enabledPurposes, acc) ==
    IF keys = <<>> THEN acc
    ELSE LET id == Head(keys)
             next == IF enabledVendor(statusByVendor, id, enabledPurposes)
                     THEN [acc EXCEPT !.enabled = Append(@, id)]
                     ELSE [acc EXCEPT !.disabled = Append(@, id)]
         IN  classifyVendors(Tail(keys), statusByVendor, enabledPurposes, next)

\* lines 99-188: serializedToken
serializedToken(t) ==
    LET p == classifyPurposes(t.consents,
                 [enabled |-> <<>>, disabled |-> <<>>,
                  statusByVendor |-> [keys |-> <<>>, purposes |-> EmptyObject]])
        v == classifyVendors(p.statusByVendor.keys, p.statusByVendor, p.enabled,
                 [enabled |-> <<>>, disabled |-> <<>>])
    IN  [issuer |-> t.issuer,
         user_id |-> t.user_id,
         user_id_type |-> t.user_id_type,
         user_id_hash_method |-> t.user_id_hash_method,
         version |-> t.version,
         purposes |-> [enabled |-> p.enabled, disabled |-> p.disabled],
         vendors |-> v]

toCompressedJSON(t) == JSONstringifyCompressed(serializedToken(t))

---------------------------------------------------------------------------
(* CWTFromCompressedJSON *)

\* lines 334-342: the shape test that rejects an object
rejectsCompressed(object) ==
    \/ Truthy(Field(object, "consents"))
    \/ ~Truthy(Field(object, "purposes"))
    \/ ~Truthy(Field(object, "vendors"))
    \/ ~Truthy(Prop(Field(object, "purposes"), "enabled"))
    \/ ~Truthy(Prop(Field(object, "purposes"), "disabled"))
    \/ ~Truthy(Prop(Field(object, "vendors"), "enabled"))
    \/ ~Truthy(Prop(Field(object, "vendors"), "disabled"))

\* Variant of setVendors that creates the consent of the purpose before it
\* looks at the vendors, so also when the list of vendors is empty.
RECURSIVE setVendors_ConsentFirst(_, _, _, _)
setVendors_ConsentFirst(consents, status, purposeId, vendorIds) ==
    IF vendorIds = <<>>
    THEN IF FindConsent(consents, purposeId) = 0
         THEN Append(consents, [purpose |-> purposeId, vendors |-> <<>>])
         ELSE consents
    ELSE setVendors_ConsentFirst(
             setConsentStatus(consents, status, purposeId, Head(vendorIds)),
             status, purposeId, Tail(vendorIds))

\* One inner loop (lines 362-370 and the like): setConsentStatus(status,
\* purposeId, vendorId) for every vendorId of the list, in order
RECURSIVE setVendors(_, _, _, _)
setVendors(consents, status, purposeId, vendorIds) ==
    IF vendorIds = <<>> THEN consents
    ELSE setVendors(setConsentStatus(consents, status, purposeId, Head(vendorIds)),
                    status, purposeId, Tail(vendorIds))

\* Variant of setEnabledPurposes whose second inner loop also sets true.
RECURSIVE setEnabledPurposes_AllTrue(_, _, _, _)
setEnabledPurposes_AllTrue(consents, purposeIds, enabledVendors, disabledVendors) ==
    IF purposeIds = <<>> THEN consents
    ELSE LET purposeId == Head(purposeIds)
             a == setVendors(consents, JsTrue, purposeId, enabledVendors)
             b == setVendors(a, JsTrue, purposeId, disabledVendors)
         IN  setEnabledPurposes_AllTrue(b, Tail(purposeIds), enabledVendors,
                                        disabledVendors)

\* lines 355-381: the loop over purposes.enabled
RECURSIVE setEnabledPurposes(_, _, _, _)
setEnabledPurposes(consents, purposeIds, enabledVendors, disabledVendors) ==
    IF purposeIds = <<>> THEN consents
    ELSE LET purposeId == Head(purposeIds)
             a == setVendors(consents, JsTrue, purposeId, enabledVendors)
             b == setVendors(a, JsFalse, purposeId, disabledVendors)
         IN  setEnabledPurposes(b, Tail(purposeIds), enabledVendors, disabledVendors)

\* Variant of setDisabledPurposes whose first inner loop sets true, as the
\* first inner loop of the enabled purposes does.
RECURSIVE setDisabledPurposes_CopyPaste(_, _, _, _)
setDisabledPurposes_CopyPaste(consents, purposeIds, enabledVendors, disabledVendors) ==
    IF purposeIds = <<>> THEN consents
    ELSE LET purposeId == Head(purposeIds)
             a == setVendors(consents, JsTrue, purposeId, enabledVendors)
             b == setVendors(a, JsFalse, purposeId, disabledVendors)
         IN  setDisabledPurposes_CopyPaste(b, Tail(purposeIds), enabledVendors,
                                           disabledVendors)

\* lines 383-409: the loop over purposes.disabled
RECURSIVE setDisabledPurposes(_, _, _, _)
setDisabledPurposes(consents, purposeIds, enabledVendors, disabledVendors) ==
    IF purposeIds = <<>> THEN consents
    ELSE LET purposeId == Head(purposeIds)
             a == setVendors(consents, JsFalse, purposeId, enabledVendors)
             b == setVendors(a, JsFalse, purposeId, disabledVendors)
         IN  setDisabledPurposes(b, Tail(purposeIds), enabledVendors, disabledVendors)

\* Variant of decodeCompressed that runs the loop over purposes.disabled
\* before the loop over purposes.enabled.
decodeCompressed_DisabledFirst(object) ==
    LET fresh == CWT([issuer |-> object.issuer,
                      user_id |-> object.user_id,
                      user_id_type |-> object.user_id_type,
                      user_id_hash_method |-> object.user_id_hash_method,
                      consents |-> JArray(<<>>),
                      version |-> object.version])
        pe == ForIn(Prop(object.purposes, "enabled"))
        pd == ForIn(Prop(object.purposes, "disabled"))
        ve == ForIn(Prop(object.vendors, "enabled"))
        vd == ForIn(Prop(object.vendors, "disabled"))
        a == setDisabledPurposes(fresh.consents, pd, ve, vd)
        b == setEnabledPurposes(a, pe, ve, vd)
    IN  [fresh EXCEPT !.consents = b]

\* Variant of decodeCompressed that reads the two vendor lists the wrong way
\* round.
decodeCompressed_Swapped(object) ==
    LET fresh == CWT([issuer |-> object.issuer,
                      user_id |-> object.user_id,
                      user_id_type |-> object.user_id_type,
                      user_id_hash_method |-> object.user_id_hash_method,
                      consents |-> JArray(<<>>),
                      version |-> object.version])
        pe == ForIn(Prop(object.purposes, "enabled"))
        pd == ForIn(Prop(object.purposes, "disabled"))
        ve == ForIn(Prop(object.vendors, "disabled"))
        vd == ForIn(Prop(object.vendors, "enabled"))
        a == setEnabledPurposes(fresh.consents, pe, ve, vd)
        b == setDisabledPurposes(a, pd, ve, vd)
    IN  [fresh EXCEPT !.consents = b]

\* lines 346-411: the token built from an accepted object
decodeCompressed(object) ==
    LET fresh == CWT([issuer |-> object.issuer,
                      user_id |-> object.user_id,
                      user_id_type |-> object.user_id_type,
                      user_id_hash_method |-> object.user_id_hash_method,
                      consents |-> JArray(<<>>),
                      version |-> object.version])
        pe == ForIn(Prop(object.purposes, "enabled"))
        pd == ForIn(Prop(object.purposes, "disabled"))
        ve == ForIn(Prop(object.vendors, "enabled"))
        vd == ForIn(Prop(object.vendors, "disabled"))
        a == setEnabledPurposes(fresh.consents, pe, ve, vd)
        b == setDisabledPurposes(a, pd, ve, vd)
    IN  [fresh EXCEPT !.consents = b]

\* The result is a token, NullCWT, or TypeError when the property access
\* object.consents of line 335 is made on null.
CWTFromCompressedJSON(jsonString) ==
    IF IsEmptyString(jsonString) THEN NullCWT
    ELSE IF ParseThrows(jsonString) THEN NullCWT
    ELSE IF RootKind(JSONparse(jsonString)) = "null" THEN TypeError
    ELSE IF rejectsCompressed(JSONparse(jsonString)) THEN NullCWT
    ELSE decodeCompressed(JSONparse(jsonString))

---------------------------------------------------------------------------
(* toJSON, CWTFromJSON and the base64 envelope *)

\* CWT.toObject()
toObject(t) ==
    [issuer |-> t.issuer, user_id |-> t.user_id, user_id_type |-> t.user_id_type,
     user_id_hash_method |-> t.user_id_hash_method, consents |-> t.consents,
     version |-> t.version]

\* JSON.stringify of the object toObject returns.  A vendor entry whose status
\* is undefined is written without its status, and reads as Undefined again.
JSONstringifyObject(obj) ==
    [kind |-> "json",
     root |-> [issuer |-> obj.issuer, user_id |-> obj.user_id,
               user_id_type |-> obj.user_id_type,
               user_id_hash_method |-> obj.user_id_hash_method,
               version |-> JNumber(obj.version),
               consents |-> JArray(obj.consents),
               purposes |-> JUndefined, vendors |-> JUndefined]]

\* CWT.toJSON()
toJSON(t) == JSONstringifyObject(toObject(t))

\* What the properties of a root that is not an object read as.
NoContent ==
    [issuer |-> Undefined, user_id |-> Undefined, user_id_type |-> Undefined,
     user_id_hash_method |-> Undefined, consents |-> JUndefined]

\* CWTFromJSON(jsonString): a token, NullCWT, or TypeError when the property
\* access object.purposes of line 307 is made on null.
CWTFromJSON(jsonString) ==
    IF IsEmptyString(jsonString) THEN NullCWT
    ELSE IF ParseThrows(jsonString) THEN NullCWT
    ELSE LET object == JSONparse(jsonString)
         IN  IF RootKind(object) = "null" THEN TypeError
             ELSE IF Truthy(Field(object, "purposes")) \/ Truthy(Field(object, "vendors"))
                  THEN NullCWT
             ELSE IF RootKind(object) = "object" THEN CWT(object)
             ELSE CWT(NoContent)

\* A base64 string is absent, empty, not base64 at all, or the encoding of a
\* text.
NotBase64 == [kind |-> "invalid"]
\* The strings of the model that hold a character above U+00FF, written by
\* their code points.
BeyondLatin1 == {"U+7528 U+6237"}
\* JSON.stringify writes such a character as it is, so the text holds one when
\* a string of the object does.  Purposes and vendor ids of the model hold none.
OutsideLatin1(text) ==
    /\ text.kind = "json"
    /\ RootKind(text.root) = "object"
    /\ {text.root.issuer, text.root.user_id, text.root.user_id_type,
        text.root.user_id_hash_method} \cap BeyondLatin1 # {}
\* The exception base64.encode raises, in the place of the string.
InvalidCharacterError == [kind |-> "thrown"]
\* base64.encode(text), of the package base-64: like btoa, it takes a string of
\* bytes and throws on a character above U+00FF.
base64encode(text) ==
    IF OutsideLatin1(text) THEN InvalidCharacterError
    ELSE [kind |-> "base64", of |-> text]
\* base64.decode(base64String) throws
DecodeThrows(base64String) == base64String.kind # "base64"
\* base64.decode(base64String)
base64decode(base64String) == base64String.of

\* CWT.toBase64()
toBase64(t) == base64encode(toJSON(t))
\* CWT.toCompressedBase64()
toCompressedBase64(t) == base64encode(toCompressedJSON(t))

\* CWTFromBase64(base64String): the try block catches every exception
CWTFromBase64(base64String) ==
    IF IsEmptyString(base64String) THEN NullCWT
    ELSE IF DecodeThrows(base64String) THEN NullCWT
    ELSE LET result == CWTFromJSON(base64decode(base64String))
         IN  IF result = TypeError THEN NullCWT ELSE result

\* CWTFromCompressedBase64(base64String)
CWTFromCompressedBase64(base64String) ==
    IF IsEmptyString(base64String) THEN NullCWT
    ELSE IF DecodeThrows(base64String) THEN NullCWT
    ELSE LET result == CWTFromCompressedJSON(base64decode(base64String))
         IN  IF result = TypeError THEN NullCWT ELSE result

---------------------------------------------------------------------------
(* src/unnamed/part_000: class Vendor *)

NullVendor == [null |-> TRUE]

\* new Vendor(id, scopes)
Vendor(id, scopes) == [id |-> id, scopes |-> scopes]

\* Variant of Vendor.fromObject without the test !object.id: any string is
\* accepted as an id.
VendorFromObject_AnyString(object) ==
    IF RootKind(object) # "object" /\ ~Truthy(object) THEN NullVendor
    ELSE IF ~IsString(Field(object, "id")) THEN NullVendor
    ELSE Vendor(object.id.v,
                IF object.scopes.t = "array" THEN object.scopes.v ELSE <<>>)

\* Vendor.fromObject(object).  The argument is any value: an object is the
\* record of its id and scopes, absent properties being JUndefined.
VendorFromObject(object) ==
    IF RootKind(object) # "object" /\ ~Truthy(object) THEN NullVendor
    ELSE IF ~IsString(Field(object, "id")) \/ ~Truthy(Field(object, "id"))
         THEN NullVendor
    ELSE Vendor(object.id.v,
                IF object.scopes.t = "array" THEN object.scopes.v ELSE <<>>)

\* Variant of addScope without the test for a scope already present.
addScope_NoDuplicateTest(scopes, scopeId) ==
    IF scopeId \in {Undefined, Null, ""} THEN scopes
    ELSE Append(scopes, scopeId)

\* Vendor.addScope(scopeId), on the scopes list
addScope(scopes, scopeId) ==
    IF scopeId \in {Undefined, Null, ""} THEN scopes
    ELSE IF scopeId \in Range(scopes) THEN scopes
    ELSE Append(scopes, scopeId)

\* Variant of hasScope that matches the wildcard scope whatever global is.
hasScope_AlwaysGlobal(scopes, scopeId, global) ==
    IF "*" \in Range(scopes) THEN TRUE
    ELSE scopeId \in Range(scopes)

\* Variant of hasScope that never matches the wildcard scope.
hasScope_LiteralOnly(scopes, scopeId, global) == scopeId \in Range(scopes)

\* Vendor.hasScope(scopeId, global)
hasScope(scopes, scopeId, global) ==
    IF global /\ "*" \in Range(scopes) THEN TRUE
    ELSE scopeId \in Range(scopes)

---------------------------------------------------------------------------
(* src/src/consent.js: class Consent *)

NullConsent == [null |-> TRUE]

\* new Consent(purpose, vendors)
Consent(purpose, vendors) ==
    [purpose |-> purpose,
     vendors |-> [i \in DOMAIN vendors |-> VendorFromObject(vendors[i])]]

\* Consent.getVendor(id), as an index into the vendors list (0: undefined)
getVendor(vendors, id) == FindVendor(vendors, id)

\* Variant of addVendor that adds the scope to a newly created vendor only.
addVendor_NewOnly(vendors, vendorId, scopeId) ==
    LET vi == getVendor(vendors, vendorId)
    IN  IF vi # 0 THEN vendors
        ELSE Append(vendors, Vendor(vendorId, addScope(<<>>, scopeId)))

\* Consent.addVendor(vendorId, scopeId), on the vendors list
addVendor(vendors, vendorId, scopeId) ==
    LET vi == getVendor(vendors, vendorId)
        withVendor == IF vi = 0 THEN Append(vendors, Vendor(vendorId, <<>>))
                      ELSE vendors
        v == IF vi = 0 THEN Len(withVendor) ELSE vi
    IN  IF scopeId \in {Undefined, Null, ""} THEN withVendor
        ELSE [withVendor EXCEPT ![v].scopes = addScope(@, scopeId)]

\* Consent.fromObject(object).  The argument is any value: an object is the
\* record of its purpose and vendors, absent properties being JUndefined.
ConsentFromObject(object) ==
    IF RootKind(object) # "object" /\ ~Truthy(object) THEN NullConsent
    ELSE IF ~IsString(Field(object, "purpose")) \/ ~Truthy(Field(object, "purpose"))
         THEN NullConsent
    ELSE Consent(object.purpose.v,
                 IF object.vendors.t = "array" THEN object.vendors.v ELSE <<>>)

---------------------------------------------------------------------------
(* src/unnamed/part_001: class CWT with scopes *)

\* new CWT(tokenContent)
ScopeCWT(tokenContent) ==
    [null |-> FALSE,
     issuer |-> tokenContent.issuer,
     user_id |-> tokenContent.user_id,
     user_id_type |-> tokenContent.user_id_type,
     user_id_hash_method |-> tokenContent.user_id_hash_method,
     consents |-> LET given == IF Truthy(tokenContent.consents)
                               THEN tokenContent.consents.v ELSE <<>>
                  IN  [i \in DOMAIN given |-> ConsentFromObject(given[i])],
     version |-> 1]

\* CWT.getConsent(purpose), as an index into the consents list (0: undefined)
getConsent(consents, purpose) == FindConsent(consents, purpose)

\* CWT.addConsent(purpose, vendorId, scopeId), on the consents list
addConsent(consents, purpose, vendorId, scopeId) ==
    LET ci == getConsent(consents, purpose)
        withConsent == IF ci = 0 THEN Append(consents, Consent(purpose, <<>>))
                       ELSE consents
        c == IF ci = 0 THEN Len(withConsent) ELSE ci
    IN  [withConsent EXCEPT ![c].vendors = addVendor(@, vendorId, scopeId)]

\* Variant of hasConsent that checks the scope when no vendor is asked for:
\* some vendor of the consent must hold it.
hasConsent_ScopeChecked(consents, purpose, vendorId, scopeId) ==
    LET ci == getConsent(consents, purpose)
    IN  IF ci # 0
        THEN LET vendors == consents[ci].vendors
             IN  IF vendorId \in {Undefined, Null, ""}
                 THEN \/ scopeId \in {Undefined, Null, ""}
                      \/ \E i \in DOMAIN vendors :
                            hasScope(vendors[i].scopes, scopeId, FALSE)
                 ELSE LET exact == getVendor(vendors, vendorId)
                          vi == IF exact # 0 THEN exact ELSE getVendor(vendors, "*")
                      IN  IF vi = 0 THEN FALSE
                          ELSE IF scopeId \in {Undefined, Null, ""} THEN TRUE
                          ELSE hasScope(vendors[vi].scopes, scopeId, FALSE)
        ELSE FALSE

\* Variant of hasConsent without the fallback to the wildcard vendor.
hasConsent_NoWildcard(consents, purpose, vendorId, scopeId) ==
    LET ci == getConsent(consents, purpose)
    IN  IF ci # 0
        THEN IF vendorId \in {Undefined, Null, ""} THEN TRUE
             ELSE LET vendors == consents[ci].vendors
                      vi == getVendor(vendors, vendorId)
                  IN  IF vi = 0 THEN FALSE
                      ELSE IF scopeId \in {Undefined, Null, ""} THEN TRUE
                      ELSE hasScope(vendors[vi].scopes, scopeId, FALSE)
        ELSE FALSE

\* CWT.hasConsent(purpose, vendorId, scopeId)
hasConsent(consents, purpose, vendorId, scopeId) ==
    LET ci == getConsent(consents, purpose)
    IN  IF ci # 0
        THEN IF vendorId \in {Undefined, Null, ""} THEN TRUE
             ELSE LET vendors == consents[ci].vendors
                      exact == getVendor(vendors, vendorId)
                      vi == IF exact # 0 THEN exact ELSE getVendor(vendors, "*")
                  IN  IF vi = 0 THEN FALSE
                      ELSE IF scopeId \in {Undefined, Null, ""} THEN TRUE
                      ELSE hasScope(vendors[vi].scopes, scopeId, FALSE)
        ELSE FALSE

---------------------------------------------------------------------------
(* The client of src/src/token.js.  It obtains a token from the constructor
   or from CWTFromCompressedJSON, then sets and reads consent statuses and
   serializes the token; a serialized token may be parsed again. *)

NoOrigin == [from |-> "none", text |-> NoText, source |-> NullCWT]
\* No status has been set on the token by the client.
NoWrites == [pair \in PurposeIds \X VendorIds |-> <<>>]

NoCall == [op |-> "none", status |-> Undefined, purpose |-> Undefined,
           vendorId |-> Undefined, scopeId |-> Undefined, ret |-> Undefined,
           text |-> NoText, object |-> JUndefined, global |-> Undefined,
           target |-> 0]

\* The vendor entries a caller passes to the constructor: status not yet set.
VendorListInputs ==
    {<<>>} \cup {<<[id |-> v, status |-> Undefined]>> : v \in VendorIds}

ConsentInputs ==
    {[purpose |-> p, vendors |-> vs] : p \in PurposeIds, vs \in VendorListInputs}

\* Consent lists of the data model: no two consents with the same purpose.
ConsentListInputs ==
    {<<>>} \cup {<<c>> : c \in ConsentInputs}
           \cup {<<cd[1], cd[2]>> :
                    cd \in {x \in ConsentInputs \X ConsentInputs :
                                x[1].purpose # x[2].purpose}}

TokenContents ==
    {[issuer |-> i, user_id |-> Undefined, user_id_type |-> Undefined,
      user_id_hash_method |-> Undefined, consents |-> cs] :
        i \in Issuers,
        cs \in {JUndefined} \cup {JArray(l) : l \in ConsentListInputs}}

\* The compressed objects a caller may hold: every choice of four
\* duplicate-free lists, disjoint or not.
CompressedObjects ==
    {[issuer |-> i, user_id |-> Null, user_id_type |-> Null,
      user_id_hash_method |-> Null, version |-> 1,
      purposes |-> [enabled |-> pe, disabled |-> pd],
      vendors |-> [enabled |-> ve, disabled |-> vd]] :
        i \in {Null, "didomi"},
        pe \in NoDupSeqs(PurposeIds), pd \in NoDupSeqs(PurposeIds),
        ve \in NoDupSeqs(VendorIds), vd \in NoDupSeqs(VendorIds)}

\* A text of the other wire shape: it carries consents.
NonCompressedText ==
    [kind |-> "json",
     root |-> [issuer |-> Null, user_id |-> Null, user_id_type |-> Null,
               user_id_hash_method |-> Null, version |-> JNumber(1),
               consents |-> JArray(<<>>),
               purposes |-> JUndefined, vendors |-> JUndefined]]

CompressedInputs ==
    {EmptyString, InvalidJSON, NonCompressedText}
        \cup {JSONstringifyCompressed(o) : o \in CompressedObjects}

\* The caller holds no object and has constructed nothing from one.
NoMemory == [heap |-> <<>>, object |-> JUndefined, tokens |-> <<>>,
             scopes |-> JUndefined, vendors |-> <<>>, scoped |-> <<>>]

Init ==
    /\ token = NullCWT
    /\ origin = NoOrigin
    /\ last = NoCall
    /\ calls = 0
    /\ scopeToken = NullCWT
    /\ written = NoWrites
    /\ scopedVendor = NullVendor
    /\ mem = NoMemory

\* token = new CWT(tokenContent)
NewCWT ==
    /\ last.op = "none"
    /\ \E tokenContent \in TokenContents :
          /\ token' = CWT(tokenContent)
          /\ origin' = [NoOrigin EXCEPT !.from = "constructor"]
          /\ last' = [NoCall EXCEPT !.op = "CWT"]
    /\ written' = NoWrites
    /\ UNCHANGED <<mem, calls, scopeToken, scopedVendor>>

\* token = CWTFromCompressedJSON(jsonString), on a text the caller holds or
\* on the text toCompressedJSON has just returned
ParseCompressed ==
    /\ \E jsonString \in (IF last.op = "none" THEN CompressedInputs ELSE {})
                          \cup (IF last.op = "toCompressedJSON" THEN {last.text} ELSE {}) :
          /\ token' = CWTFromCompressedJSON(jsonString)
          /\ origin' = [from |-> IF last.op = "none" THEN "input" ELSE "encoder",
                        text |-> jsonString,
                        source |-> token]
          /\ last' = [NoCall EXCEPT !.op = "CWTFromCompressedJSON"]
    /\ written' = NoWrites
    /\ UNCHANGED <<mem, calls, scopeToken, scopedVendor>>

\* token.setConsentStatus(status, purpose, vendorId)
SetConsentStatus ==
    /\ ~token.null
    /\ calls < MaxCalls
    /\ \E status \in StatusValues, purpose \in PurposeIds, vendorId \in VendorIds :
          /\ token' = [token EXCEPT
                           !.consents = setConsentStatus(@, status, purpose, vendorId)]
          /\ last' = [NoCall EXCEPT !.op = "setConsentStatus", !.status = status,
                                    !.purpose = purpose, !.vendorId = vendorId]
          /\ written' = [written EXCEPT ![<<purpose, vendorId>>] = Append(@, status)]
    /\ origin' = NoOrigin
    /\ calls' = calls + 1
    /\ UNCHANGED <<mem, scopeToken, scopedVendor>>

\* token.getConsentStatus(purpose, vendorId)
GetConsentStatus ==
    /\ ~token.null
    /\ \E purpose \in PurposeIds, vendorId \in QueryVendorIds :
          last' = [NoCall EXCEPT !.op = "getConsentStatus", !.purpose = purpose,
                                 !.vendorId = vendorId,
                                 !.ret = getConsentStatus(token.consents, purpose, vendorId)]
    /\ UNCHANGED <<mem, token, origin, calls, scopeToken, written, scopedVendor>>

\* token.toCompressedJSON()
ToCompressedJSON ==
    /\ ~token.null
    /\ last' = [NoCall EXCEPT !.op = "toCompressedJSON", !.text = toCompressedJSON(token)]
    /\ UNCHANGED <<mem, token, origin, calls, scopeToken, written, scopedVendor>>

Next ==
    \/ NewCWT
    \/ ParseCompressed
    \/ SetConsentStatus
    \/ GetConsentStatus
    \/ ToCompressedJSON

Spec == Init /\ [][Next]_vars


---------------------------------------------------------------------------
(* The client of src/unnamed/part_001.  It constructs a token, adds consents
   and asks whether consent holds. *)

ScopeIds == {"site", "*"}
QueryScopeIds == ScopeIds \cup {Null}
NotSupplied == Null

\* The vendor objects a caller passes to the constructor.
VendorObjects ==
    {[id |-> JId(v), scopes |-> sc] :
        v \in VendorIds,
        sc \in {JUndefined} \cup {JArray(l) : l \in {<<"site">>, <<"*">>}}}

ConsentObjects ==
    {[purpose |-> JId(p), vendors |-> vs] :
        p \in PurposeIds,
        vs \in {JUndefined, JArray(<<>>)} \cup {JArray(<<o>>) : o \in VendorObjects}}

ScopeTokenContents ==
    {[issuer |-> "didomi", user_id |-> Undefined, user_id_type |-> Undefined,
      user_id_hash_method |-> Undefined, consents |-> cs] :
        cs \in {JUndefined} \cup {JArray(<<c>>) : c \in ConsentObjects}}

ToJs(b) == IF b THEN JsTrue ELSE JsFalse

\* scopeToken = new CWT(tokenContent)
NewScopeCWT ==
    /\ last.op = "none"
    /\ \E tokenContent \in ScopeTokenContents :
          scopeToken' = ScopeCWT(tokenContent)
    /\ last' = [NoCall EXCEPT !.op = "CWT"]
    /\ UNCHANGED <<mem, token, origin, calls, written, scopedVendor>>

\* scopeToken.addConsent(purpose, vendorId, scopeId)
AddConsent ==
    /\ ~scopeToken.null
    /\ calls < MaxCalls
    /\ \E purpose \in PurposeIds, vendorId \in VendorIds,
          scopeId \in ScopeIds \cup {NotSupplied} :
          /\ scopeToken' = [scopeToken EXCEPT
                 !.consents = addConsent(@, purpose, vendorId, scopeId)]
          /\ last' = [NoCall EXCEPT !.op = "addConsent", !.purpose = purpose,
                                    !.vendorId = vendorId, !.scopeId = scopeId]
    /\ calls' = calls + 1
    /\ UNCHANGED <<mem, token, origin, written, scopedVendor>>

\* scopeToken.hasConsent(purpose, vendorId, scopeId)
HasConsent ==
    /\ ~scopeToken.null
    /\ \E purpose \in PurposeIds, vendorId \in QueryVendorIds \cup {NotSupplied},
          scopeId \in QueryScopeIds :
          last' = [NoCall EXCEPT
                      !.op = "hasConsent", !.purpose = purpose,
                      !.vendorId = vendorId, !.scopeId = scopeId,
                      !.ret = ToJs(hasConsent(scopeToken.consents, purpose,
                                              vendorId, scopeId))]
    /\ UNCHANGED <<mem, token, origin, calls, scopeToken, written, scopedVendor>>

NextScope ==
    \/ NewScopeCWT
    \/ AddConsent
    \/ HasConsent

SpecScope == Init /\ [][NextScope]_vars

---------------------------------------------------------------------------
(* The client of the parsing functions of src/src/token.js.  It calls one of
   the four parsing functions on something received from outside, well
   formed or not, or on what a token it holds has just been serialized to. *)

\* What a received object may hold in the place of a list of identifiers.
IdListValues(id) ==
    {JUndefined, JArray(<<>>), JArray(<<id>>), JString(<<"c">>), JNumber(1),
     JObject([a |-> id])}

\* What a received object may hold as purposes or as vendors.
ShapeValues(id) ==
    {JUndefined, JArray(<<>>)}
        \cup {JObject([enabled |-> e, disabled |-> d]) :
                  e \in IdListValues(id), d \in IdListValues(id)}

\* What a received object may hold as consents.
ConsentsValues ==
    {JUndefined, JArray(<<>>),
     JArray(<<[purpose |-> "cookies", vendors |-> <<[id |-> "*", status |-> JsTrue]>>]>>)}

ReceivedObjects ==
    {[issuer |-> "didomi", user_id |-> Null, user_id_type |-> Null,
      user_id_hash_method |-> Null, version |-> JNumber(1),
      consents |-> c, purposes |-> p, vendors |-> v] :
        c \in ConsentsValues, p \in ShapeValues("cookies"), v \in ShapeValues("didomi")}

\* The version tags a received object may carry: none, the version of the
\* library, later ones.
ReceivedVersions == {JUndefined, JNumber(1), JNumber(2), JNumber(7)}

\* Received objects of either shape, with any version tag.
VersionedObjects ==
    {[issuer |-> "didomi", user_id |-> Null, user_id_type |-> Null,
      user_id_hash_method |-> Null, version |-> n,
      consents |-> sh[1], purposes |-> sh[2], vendors |-> sh[3]] :
        n \in ReceivedVersions,
        sh \in {<<JArray(<<[purpose |-> "cookies",
                            vendors |-> <<[id |-> "*", status |-> JsTrue]>>]>>),
                  JUndefined, JUndefined>>,
                <<JUndefined,
                  JObject([enabled |-> JArray(<<"cookies">>), disabled |-> JArray(<<>>)]),
                  JObject([enabled |-> JArray(<<"didomi">>), disabled |-> JArray(<<>>)])>>}}

\* JSON values that are not objects.
OtherRoots == {JNull, JNumber(5), JNumber(0), JString(<<"a">>), JArray(<<>>)}

ReceivedTexts ==
    {AbsentString, EmptyString, InvalidJSON}
        \cup {[kind |-> "json", root |-> r] :
                  r \in OtherRoots \cup ReceivedObjects \cup VersionedObjects}

ReceivedBase64 ==
    {AbsentString, EmptyString, NotBase64}
        \cup {base64encode(t) : t \in ReceivedTexts \ {AbsentString, EmptyString}}

\* How a call ended: with an exception, with null or with a token.
Outcome(result) ==
    IF result = TypeError THEN "throws"
    ELSE IF result = NullCWT THEN "null"
    ELSE "token"

\* token = parse(input): the state after the call.  When the call throws the
\* assignment does not happen.
Parsed(op, input, result) ==
    /\ token' = IF result = TypeError THEN token ELSE result
    /\ origin' = [from |-> IF last.op = "none" THEN "input" ELSE "encoder",
                  text |-> input, source |-> token]
    /\ last' = [NoCall EXCEPT !.op = op, !.text = input, !.ret = Outcome(result)]
    /\ written' = NoWrites
    /\ UNCHANGED <<mem, calls, scopeToken, scopedVendor>>

\* The texts a parsing function of JSON may be called on.
TextsAtHand ==
    (IF last.op = "none" THEN ReceivedTexts ELSE {})
        \cup (IF last.op \in {"toJSON", "toCompressedJSON"} THEN {last.text} ELSE {})

\* The base64 strings a parsing function of base64 may be called on.
Base64AtHand ==
    (IF last.op = "none" THEN ReceivedBase64 ELSE {})
        \cup (IF /\ last.op \in {"toBase64", "toCompressedBase64"}
                  /\ last.text # InvalidCharacterError
               THEN {last.text} ELSE {})

\* token = CWTFromJSON(jsonString)
CallCWTFromJSON ==
    \E jsonString \in TextsAtHand :
        Parsed("CWTFromJSON", jsonString, CWTFromJSON(jsonString))

\* token = CWTFromCompressedJSON(jsonString)
CallCWTFromCompressedJSON ==
    \E jsonString \in TextsAtHand :
        Parsed("CWTFromCompressedJSON", jsonString, CWTFromCompressedJSON(jsonString))

\* token = CWTFromBase64(base64String)
CallCWTFromBase64 ==
    \E base64String \in Base64AtHand :
        Parsed("CWTFromBase64", base64String, CWTFromBase64(base64String))

\* token = CWTFromCompressedBase64(base64String)
CallCWTFromCompressedBase64 ==
    \E base64String \in Base64AtHand :
        Parsed("CWTFromCompressedBase64", base64String,
               CWTFromCompressedBase64(base64String))

\* token.toJSON()
ToJSON ==
    /\ ~token.null
    /\ last' = [NoCall EXCEPT !.op = "toJSON", !.text = toJSON(token)]
    /\ UNCHANGED <<mem, token, origin, calls, scopeToken, written, scopedVendor>>

\* token.toBase64()
ToBase64 ==
    /\ ~token.null
    /\ last' = [NoCall EXCEPT !.op = "toBase64", !.text = toBase64(token)]
    /\ UNCHANGED <<mem, token, origin, calls, scopeToken, written, scopedVendor>>

\* token.toCompressedBase64()
ToCompressedBase64 ==
    /\ ~token.null
    /\ last' = [NoCall EXCEPT !.op = "toCompressedBase64",
                              !.text = toCompressedBase64(token)]
    /\ UNCHANGED <<mem, token, origin, calls, scopeToken, written, scopedVendor>>

NextParse ==
    \/ NewCWT
    \/ CallCWTFromJSON
    \/ CallCWTFromCompressedJSON
    \/ CallCWTFromBase64
    \/ CallCWTFromCompressedBase64
    \/ ToJSON
    \/ ToCompressedJSON
    \/ ToBase64
    \/ ToCompressedBase64

SpecParse == Init /\ [][NextParse]_vars

---------------------------------------------------------------------------
(* The client of src/unnamed/part_000.  It obtains a Vendor from the
   constructor or from Vendor.fromObject, adds scopes to it and asks whether
   it has a scope. *)

\* A scope no vendor is constructed with.
OtherScopeIds == {"app"}
\* An identifier that is empty or not given.
EmptyIds == {"", NotSupplied}

\* The scope lists a caller passes to the constructor.
ScopeLists == NoDupSeqs(ScopeIds)

\* What a caller passes to Vendor.fromObject: not an object, or an object
\* with any id and any scopes, a scope list with a repetition included.
VendorArguments ==
    {JUndefined, JNull, JId(""), JId("didomi"), JNumber(5), JArray(<<>>)}
        \cup {[id |-> i, scopes |-> sc] :
                  i \in {JUndefined, JNull, JId(""), JId("didomi"), JId("*"),
                         JArray(<<>>), JNumber(5)},
                  sc \in {JUndefined, JNull, JObject(<<>>), JId("site")}
                            \cup {JArray(l) : l \in ScopeLists \cup {<<"site", "site">>}}}

\* scopedVendor = new Vendor(id, scopes); scopes defaults to []
NewVendor ==
    /\ last.op = "none"
    /\ \E id \in VendorIds, scopes \in ScopeLists :
          scopedVendor' = Vendor(id, scopes)
    /\ last' = [NoCall EXCEPT !.op = "Vendor"]
    /\ UNCHANGED <<mem, token, origin, calls, scopeToken, written>>

\* scopedVendor = Vendor.fromObject(object)
CallVendorFromObject ==
    /\ last.op = "none"
    /\ \E object \in VendorArguments :
          /\ scopedVendor' = VendorFromObject(object)
          /\ last' = [NoCall EXCEPT !.op = "Vendor.fromObject", !.object = object]
    /\ UNCHANGED <<mem, token, origin, calls, scopeToken, written>>

\* scopedVendor.addScope(scopeId)
AddScope ==
    /\ scopedVendor # NullVendor
    /\ calls < MaxCalls
    /\ \E scopeId \in ScopeIds \cup OtherScopeIds \cup EmptyIds :
          /\ scopedVendor' = [scopedVendor EXCEPT !.scopes = addScope(@, scopeId)]
          /\ last' = [NoCall EXCEPT !.op = "addScope", !.scopeId = scopeId]
    /\ calls' = calls + 1
    /\ UNCHANGED <<mem, token, origin, scopeToken, written>>

\* scopedVendor.hasScope(scopeId, global); global defaults to true
HasScope ==
    /\ scopedVendor # NullVendor
    /\ \E scopeId \in ScopeIds \cup OtherScopeIds,
          global \in {JsTrue, JsFalse, NotSupplied} :
          last' = [NoCall EXCEPT
                      !.op = "hasScope", !.scopeId = scopeId, !.global = global,
                      !.ret = ToJs(hasScope(scopedVendor.scopes, scopeId,
                                            IF global = NotSupplied THEN TRUE
                                            ELSE global = JsTrue))]
    /\ UNCHANGED <<mem, token, origin, calls, scopeToken, written, scopedVendor>>

NextVendor ==
    \/ NewVendor
    \/ CallVendorFromObject
    \/ AddScope
    \/ HasScope

SpecVendor == Init /\ [][NextVendor]_vars

---------------------------------------------------------------------------
(* The client of the mutating operations.  It holds a token of either
   generation or a Vendor and calls the mutating operations with any
   identifiers, empty and absent ones included. *)

\* The model bound: how many calls with any identifiers a client makes.
MaxAnyIdCalls == 2

\* The identifiers a caller may pass in the place of a purpose, a vendor id.
AnyPurposeIds == {"cookies"} \cup EmptyIds
AnyVendorIds == {"didomi"} \cup EmptyIds

\* token.setConsentStatus(status, purpose, vendorId), with any identifiers
SetConsentStatusAnyId ==
    /\ ~token.null
    /\ calls < MaxAnyIdCalls
    /\ \E status \in StatusValues, purpose \in AnyPurposeIds, vendorId \in AnyVendorIds :
          /\ token' = [token EXCEPT
                           !.consents = setConsentStatus(@, status, purpose, vendorId)]
          /\ last' = [NoCall EXCEPT !.op = "setConsentStatus", !.status = status,
                                    !.purpose = purpose, !.vendorId = vendorId]
          /\ written' = IF <<purpose, vendorId>> \in DOMAIN written
                        THEN [written EXCEPT ![<<purpose, vendorId>>] = Append(@, status)]
                        ELSE written
    /\ origin' = NoOrigin
    /\ calls' = calls + 1
    /\ UNCHANGED <<mem, scopeToken, scopedVendor>>

\* scopeToken.addConsent(purpose, vendorId, scopeId), with any identifiers
AddConsentAnyId ==
    /\ ~scopeToken.null
    /\ calls < MaxAnyIdCalls
    /\ \E purpose \in AnyPurposeIds, vendorId \in AnyVendorIds,
          scopeId \in {"site"} \cup EmptyIds :
          /\ scopeToken' = [scopeToken EXCEPT
                 !.consents = addConsent(@, purpose, vendorId, scopeId)]
          /\ last' = [NoCall EXCEPT !.op = "addConsent", !.purpose = purpose,
                                    !.vendorId = vendorId, !.scopeId = scopeId]
    /\ calls' = calls + 1
    /\ UNCHANGED <<mem, token, origin, written, scopedVendor>>

\* scopeToken.getConsent(purpose).addVendor(vendorId, scopeId), with any
\* identifiers, on a consent the token holds
AddVendorAnyId ==
    /\ ~scopeToken.null
    /\ calls < MaxAnyIdCalls
    /\ \E c \in DOMAIN scopeToken.consents, vendorId \in AnyVendorIds,
          scopeId \in {"site"} \cup EmptyIds :
          /\ scopeToken' = [scopeToken EXCEPT
                 !.consents[c].vendors = addVendor(@, vendorId, scopeId)]
          /\ last' = [NoCall EXCEPT !.op = "addVendor",
                                    !.purpose = scopeToken.consents[c].purpose,
                                    !.vendorId = vendorId, !.scopeId = scopeId]
    /\ calls' = calls + 1
    /\ UNCHANGED <<mem, token, origin, written, scopedVendor>>

NextMutate ==
    \/ NewCWT
    \/ SetConsentStatusAnyId
    \/ NewScopeCWT
    \/ AddConsentAnyId
    \/ AddVendorAnyId
    \/ NewVendor
    \/ AddScope

SpecMutate == Init /\ [][NextMutate]_vars

---------------------------------------------------------------------------
(* The client of Consent.fromObject (src/src/consent.js). *)

\* The values a caller puts in a vendors array: vendor objects and values
\* Vendor.fromObject rejects.
VendorEntries ==
    {[id |-> JId("didomi"), scopes |-> JArray(<<"site">>)],
     [id |-> JId("*"), scopes |-> JUndefined],
     [id |-> JUndefined, scopes |-> JUndefined],
     [id |-> JId(""), scopes |-> JArray(<<>>)],
     JNull}

\* What a caller passes to Consent.fromObject: not an object, or an object
\* with any purpose and any vendors.
ConsentArguments ==
    {JUndefined, JId(""), JArray(<<>>)}
        \cup {[purpose |-> p, vendors |-> vs] :
                  p \in {JUndefined, JId(""), JArray(<<>>), JId("cookies")},
                  vs \in {JUndefined, JObject(<<>>), JArray(<<>>)}
                            \cup {JArray(<<e>>) : e \in VendorEntries}
                            \cup {JArray(<<e, f>>) : e \in VendorEntries, f \in VendorEntries}}

\* Consent.fromObject(object)
CallConsentFromObject ==
    /\ last.op = "none"
    /\ \E object \in ConsentArguments :
          last' = [NoCall EXCEPT !.op = "Consent.fromObject", !.object = object,
                                 !.ret = ConsentFromObject(object)]
    /\ UNCHANGED <<mem, token, origin, calls, scopeToken, written, scopedVendor>>

NextConsent == CallConsentFromObject

SpecConsent == Init /\ [][NextConsent]_vars

---------------------------------------------------------------------------
(* The version migrators toV2Compressed and toV2NonCompressed.  Their code
   is not among the sources; they are modelled from section 4.5 of the
   specification and from their tests (src/unnamed/part_004, lines 817-918).
   A migrator takes a decoded object, the record of its fields, or null. *)

LegacyVersion == 1
CurrentVersion == 2

\* Variant of toV2Compressed without the version gate.
toV2Compressed_NoGate(object) ==
    IF RootKind(object) # "object" THEN JNull
    ELSE [object EXCEPT !.version = JNumber(CurrentVersion)]

\* toV2Compressed(object): a pure bump of the version tag
toV2Compressed(object) ==
    IF RootKind(object) # "object" THEN JNull
    ELSE IF object.version # JNumber(LegacyVersion) THEN JNull
    ELSE [object EXCEPT !.version = JNumber(CurrentVersion)]

\* Variant of purposeStatus that guesses false for a consent without a
\* wildcard vendor entry.
purposeStatus_GuessFalse(consent) ==
    LET vi == FindVendor(consent.vendors, "*")
    IN  IF vi # 0 THEN consent.vendors[vi].status ELSE JsFalse

\* The status a consent gets: the status of its wildcard vendor entry, unset
\* when there is none.
purposeStatus(consent) ==
    LET vi == FindVendor(consent.vendors, "*")
    IN  IF vi # 0 THEN consent.vendors[vi].status ELSE Undefined

\* toV2NonCompressed(object): bumps the version tag and gives every consent
\* its status
toV2NonCompressed(object) ==
    IF RootKind(object) # "object" THEN JNull
    ELSE IF object.version # JNumber(LegacyVersion) THEN JNull
    ELSE [object EXCEPT
            !.version = JNumber(CurrentVersion),
            !.consents = [i \in DOMAIN @ |->
                             [purpose |-> @[i].purpose,
                              status |-> purposeStatus(@[i]),
                              vendors |-> @[i].vendors]]]

\* The version tags of the objects a caller holds: absent, legacy, current,
\* unrecognized.
VersionTags == {JUndefined, JNumber(0), JNumber(LegacyVersion),
                JNumber(CurrentVersion), JNumber(CurrentVersion + 1)}

\* The vendor entries of a decoded consent: status set.
DecodedVendorLists ==
    {<<>>} \cup {<<[id |-> v, status |-> st]>> : v \in VendorIds, st \in StatusValues}
           \cup {<<[id |-> "didomi", status |-> st], [id |-> "*", status |-> su]>> :
                     st \in StatusValues, su \in StatusValues}
           \cup {<<[id |-> "*", status |-> su], [id |-> "didomi", status |-> st]>> :
                     st \in StatusValues, su \in StatusValues}

\* The consents of a decoded object: none, one, or two of different purposes.
DecodedConsentLists ==
    {<<>>} \cup {<<[purpose |-> "cookies", vendors |-> vs]>> : vs \in DecodedVendorLists}
           \cup {<<[purpose |-> "analytics", vendors |-> vs],
                    [purpose |-> "cookies", vendors |-> ws]>> :
                     vs \in DecodedVendorLists, ws \in DecodedVendorLists}

\* Decoded objects of the non-compressed and of the compressed shape.
NonCompressedObjects ==
    {[version |-> v, user_id |-> "user", consents |-> cs] :
        v \in VersionTags, cs \in DecodedConsentLists}

CompressedDecodedObjects ==
    {[version |-> v, user_id |-> "user",
      purposes |-> [enabled |-> pe, disabled |-> <<>>],
      vendors |-> [enabled |-> ve, disabled |-> <<>>]] :
        v \in VersionTags,
        pe \in NoDupSeqs(PurposeIds), ve \in NoDupSeqs(VendorIds)}

\* toV2Compressed(object), on an object the caller holds or on what a
\* migrator has just returned
CallToV2Compressed ==
    /\ last.op \in {"none", "toV2Compressed"}
    /\ \E object \in (IF last.op = "none" THEN {JNull} \cup CompressedDecodedObjects
                       ELSE {last.ret}) :
          last' = [NoCall EXCEPT !.op = "toV2Compressed", !.object = object,
                                 !.ret = toV2Compressed(object)]
    /\ UNCHANGED <<mem, token, origin, calls, scopeToken, written, scopedVendor>>

\* toV2NonCompressed(object), likewise
CallToV2NonCompressed ==
    /\ last.op \in {"none", "toV2NonCompressed"}
    /\ \E object \in (IF last.op = "none" THEN {JNull} \cup NonCompressedObjects
                       ELSE {last.ret}) :
          last' = [NoCall EXCEPT !.op = "toV2NonCompressed", !.object = object,
                                 !.ret = toV2NonCompressed(object)]
    /\ UNCHANGED <<mem, token, origin, calls, scopeToken, written, scopedVendor>>

NextMigrate ==
    \/ CallToV2Compressed
    \/ CallToV2NonCompressed

SpecMigrate == Init /\ [][NextMigrate]_vars

---------------------------------------------------------------------------
(* The client over the whole life of a token.  It obtains a token of either
   generation from the constructor or from a parsing function, changes it
   with setConsentStatus or addConsent, serializes it and parses what it
   serialized. *)

\* The user ids a caller passes to the constructor.
UserIds == {"user@domain.com"} \cup BeyondLatin1

\* token = new CWT({ issuer, user_id, user_id_type })
NewCWTOfUser ==
    /\ last.op = "none"
    /\ \E user_id \in UserIds :
          token' = CWT([issuer |-> "didomi", user_id |-> user_id,
                        user_id_type |-> "email", user_id_hash_method |-> Undefined,
                        consents |-> JUndefined])
    /\ origin' = [NoOrigin EXCEPT !.from = "constructor"]
    /\ last' = [NoCall EXCEPT !.op = "CWT"]
    /\ written' = NoWrites
    /\ UNCHANGED <<mem, calls, scopeToken, scopedVendor>>

NextLifecycle ==
    \/ NewCWT
    \/ NewCWTOfUser
    \/ CallCWTFromJSON
    \/ CallCWTFromCompressedJSON
    \/ CallCWTFromBase64
    \/ CallCWTFromCompressedBase64
    \/ SetConsentStatus
    \/ ToJSON
    \/ ToBase64
    \/ NewScopeCWT
    \/ AddConsent

SpecLifecycle == Init /\ [][NextLifecycle]_vars

---------------------------------------------------------------------------
(* The caller that shares its arrays.  A JavaScript array is an object held
   by reference: an assignment copies the reference, and a push through one
   reference is seen through every other.  mem.heap holds the contents of the
   arrays of interest, an array being its index in mem.heap; mem.object is
   the object the caller passes to the constructor of src/src/token.js,
   mem.tokens the tokens it has constructed from it, mem.scopes the array the
   caller passes to the constructor of Vendor, mem.vendors the vendors it has
   constructed from it, mem.scoped the tokens of src/unnamed/part_001 it has
   constructed from an object whose vendor holds it.  The objects inside an array are each held by that
   array alone, so that a change of one of them is a change of the contents
   of the array. *)

\* The model bound: how many tokens, or vendors, a caller constructs from the
\* same object.
MaxShared == 2

\* The array value whose contents are mem.heap[address].
ArrayAt(address) == JArray(address)

\* const object = { issuer, consents }, with a consents array or without one
HoldObject ==
    /\ mem.object = JUndefined
    /\ mem.scopes = JUndefined
    /\ \E consents \in {JUndefined}
                         \cup {JArray(l) : l \in {x \in ConsentListInputs : Len(x) <= 1}} :
          mem' = [mem EXCEPT
                     !.heap = IF Truthy(consents) THEN Append(@, consents.v) ELSE @,
                     !.object = [issuer |-> "didomi", user_id |-> Undefined,
                                 user_id_type |-> Undefined,
                                 user_id_hash_method |-> Undefined,
                                 consents |-> IF Truthy(consents)
                                              THEN ArrayAt(Len(mem.heap) + 1)
                                              ELSE JUndefined]]
    /\ UNCHANGED <<token, origin, last, calls, scopeToken, written, scopedVendor>>

\* new CWT(object): this.consents = tokenContent.consents || [] keeps the
\* array of the caller when there is one, and makes a new array otherwise
ConstructFromObject ==
    /\ mem.object # JUndefined
    /\ Len(mem.tokens) < MaxShared
    /\ LET own == ~Truthy(mem.object.consents)
           built == CWT(mem.object)
       IN  mem' = [mem EXCEPT
                      !.heap = IF own THEN Append(@, built.consents) ELSE @,
                      !.tokens = Append(@, [built EXCEPT
                                               !.consents = IF own THEN Len(mem.heap) + 1
                                                            ELSE built.consents])]
    /\ last' = [NoCall EXCEPT !.op = "CWT", !.target = Len(mem.tokens) + 1]
    /\ UNCHANGED <<token, origin, calls, scopeToken, written, scopedVendor>>

\* mem.tokens[target].setConsentStatus(status, purpose, vendorId)
SetConsentStatusOfShared ==
    /\ calls < MaxCalls
    /\ \E target \in DOMAIN mem.tokens, status \in StatusValues,
          purpose \in PurposeIds, vendorId \in VendorIds :
          /\ mem' = [mem EXCEPT
                         !.heap[mem.tokens[target].consents] =
                             setConsentStatus(@, status, purpose, vendorId)]
          /\ last' = [NoCall EXCEPT !.op = "setConsentStatus", !.status = status,
                                    !.purpose = purpose, !.vendorId = vendorId,
                                    !.target = target]
    /\ calls' = calls + 1
    /\ UNCHANGED <<token, origin, scopeToken, written, scopedVendor>>

\* object.consents.push({ purpose, vendors: [] }), by the caller
PushConsent ==
    /\ calls < MaxCalls
    /\ mem.object # JUndefined
    /\ Truthy(mem.object.consents)
    /\ \E purpose \in PurposeIds :
          /\ purpose \notin PurposesOfList(mem.heap[mem.object.consents.v])
          /\ mem' = [mem EXCEPT
                         !.heap[mem.object.consents.v] =
                             Append(@, [purpose |-> purpose, vendors |-> <<>>])]
          /\ last' = [NoCall EXCEPT !.op = "consents.push", !.purpose = purpose]
    /\ calls' = calls + 1
    /\ UNCHANGED <<token, origin, scopeToken, written, scopedVendor>>

\* const scopes = [...]
HoldScopes ==
    /\ mem.scopes = JUndefined
    /\ mem.object = JUndefined
    /\ \E scopes \in ScopeLists :
          mem' = [mem EXCEPT !.heap = Append(@, scopes),
                             !.scopes = ArrayAt(Len(mem.heap) + 1)]
    /\ UNCHANGED <<token, origin, last, calls, scopeToken, written, scopedVendor>>

\* new Vendor(id, scopes) or Vendor.fromObject({ id, scopes }): both keep
\* the array of the caller
ConstructFromScopes ==
    /\ mem.scopes # JUndefined
    /\ Len(mem.vendors) < MaxShared
    /\ \E id \in VendorIds :
          \/ /\ mem' = [mem EXCEPT !.vendors = Append(@, Vendor(id, mem.scopes.v))]
             /\ last' = [NoCall EXCEPT !.op = "Vendor", !.target = Len(mem.vendors) + 1]
          \/ /\ mem' = [mem EXCEPT
                            !.vendors = Append(@, VendorFromObject(
                                                      [id |-> JId(id),
                                                       scopes |-> mem.scopes]))]
             /\ last' = [NoCall EXCEPT !.op = "Vendor.fromObject",
                                       !.target = Len(mem.vendors) + 1]
    /\ UNCHANGED <<token, origin, calls, scopeToken, written, scopedVendor>>

\* mem.vendors[target].addScope(scopeId)
AddScopeOfShared ==
    /\ calls < MaxCalls
    /\ \E target \in DOMAIN mem.vendors, scopeId \in ScopeIds \cup OtherScopeIds :
          /\ mem' = [mem EXCEPT
                         !.heap[mem.vendors[target].scopes] = addScope(@, scopeId)]
          /\ last' = [NoCall EXCEPT !.op = "addScope", !.scopeId = scopeId,
                                    !.target = target]
    /\ calls' = calls + 1
    /\ UNCHANGED <<token, origin, scopeToken, written, scopedVendor>>

\* The positions of the vendors of a consents list of src/unnamed/part_001.
VendorPositions(consents) ==
    UNION {{<<i, j>> : j \in DOMAIN consents[i].vendors} : i \in DOMAIN consents}

\* The consents of a token of src/unnamed/part_001 with, in the place of
\* every scopes array, its contents.
Dereferenced(consents, heap) ==
    [i \in DOMAIN consents |->
        [purpose |-> consents[i].purpose,
         vendors |-> [j \in DOMAIN consents[i].vendors |->
                         [id |-> consents[i].vendors[j].id,
                          scopes |-> heap[consents[i].vendors[j].scopes]]]]]

\* The heap and the consents after a call that left the contents after:
\* the scopes array of a vendor that was there keeps its place in the heap,
\* the scopes array of a new vendor, at most one, is a new array.
Stored(consents, after, heap) ==
    LET had == VendorPositions(consents)
        new == VendorPositions(after) \ had
        kept == [a \in DOMAIN heap |->
                    IF \E pos \in had : consents[pos[1]].vendors[pos[2]].scopes = a
                    THEN LET pos == CHOOSE q \in had :
                                        consents[q[1]].vendors[q[2]].scopes = a
                         IN  after[pos[1]].vendors[pos[2]].scopes
                    ELSE heap[a]]
    IN  [heap |-> IF new = {} THEN kept
                  ELSE LET pos == CHOOSE q \in new : TRUE
                       IN  Append(kept, after[pos[1]].vendors[pos[2]].scopes),
         consents |-> [i \in DOMAIN after |->
                          [purpose |-> after[i].purpose,
                           vendors |-> [j \in DOMAIN after[i].vendors |->
                                           [id |-> after[i].vendors[j].id,
                                            scopes |-> IF <<i, j>> \in had
                                                       THEN consents[i].vendors[j].scopes
                                                       ELSE Len(heap) + 1]]]]]

\* new CWT({ consents: [{ purpose, vendors: [{ id, scopes }] }] }), of
\* src/unnamed/part_001: the consents and the vendors are new objects, the
\* vendor keeps the array of the caller
ConstructFromVendorObject ==
    /\ mem.scopes # JUndefined
    /\ Len(mem.scoped) < MaxShared
    /\ mem' = [mem EXCEPT
                   !.scoped = Append(@, ScopeCWT(
                       [issuer |-> "didomi", user_id |-> Undefined,
                        user_id_type |-> Undefined, user_id_hash_method |-> Undefined,
                        consents |-> JArray(<<[purpose |-> JId("cookies"),
                                              vendors |-> JArray(<<[id |-> JId("didomi"),
                                                                   scopes |-> mem.scopes]>>)]>>)]))]
    /\ last' = [NoCall EXCEPT !.op = "CWT", !.target = Len(mem.scoped) + 1]
    /\ UNCHANGED <<token, origin, calls, scopeToken, written, scopedVendor>>

\* mem.scoped[target].addConsent(purpose, vendorId, scopeId)
AddConsentOfShared ==
    /\ calls < MaxCalls
    /\ \E target \in DOMAIN mem.scoped, purpose \in PurposeIds,
          vendorId \in VendorIds, scopeId \in OtherScopeIds \cup {NotSupplied} :
          /\ LET consents == mem.scoped[target].consents
                 after == addConsent(Dereferenced(consents, mem.heap),
                                     purpose, vendorId, scopeId)
                 stored == Stored(consents, after, mem.heap)
             IN  mem' = [mem EXCEPT !.heap = stored.heap,
                                    !.scoped[target].consents = stored.consents]
          /\ last' = [NoCall EXCEPT !.op = "addConsent", !.purpose = purpose,
                                    !.vendorId = vendorId, !.scopeId = scopeId,
                                    !.target = target]
    /\ calls' = calls + 1
    /\ UNCHANGED <<token, origin, scopeToken, written, scopedVendor>>

\* scopes.push(scopeId), by the caller
PushScope ==
    /\ calls < MaxCalls
    /\ mem.scopes # JUndefined
    /\ \E scopeId \in OtherScopeIds :
          /\ mem' = [mem EXCEPT !.heap[mem.scopes.v] = Append(@, scopeId)]
          /\ last' = [NoCall EXCEPT !.op = "scopes.push", !.scopeId = scopeId]
    /\ calls' = calls + 1
    /\ UNCHANGED <<token, origin, scopeToken, written, scopedVendor>>

NextOwnership ==
    \/ HoldObject
    \/ ConstructFromObject
    \/ SetConsentStatusOfShared
    \/ PushConsent
    \/ HoldScopes
    \/ ConstructFromScopes
    \/ AddScopeOfShared
    \/ ConstructFromVendorObject
    \/ AddConsentOfShared
    \/ PushScope

SpecOwnership == Init /\ [][NextOwnership]_vars

---------------------------------------------------------------------------
(* Vocabulary of the properties *)

\* The (purpose, vendor id, status) entries a status-based consents list holds.
Entries(consents) ==
    UNION {{<<consents[i].purpose, consents[i].vendors[j].id,
              consents[i].vendors[j].status>> : j \in DOMAIN consents[i].vendors} :
           i \in DOMAIN consents}

\* The positions of the vendor entries of a consents list.
EntryPositions(consents) ==
    UNION {{<<i, j>> : j \in DOMAIN consents[i].vendors} : i \in DOMAIN consents}

PurposesOf(consents) == {consents[i].purpose : i \in DOMAIN consents}
VendorsOf(consents) == {e[2] : e \in Entries(consents)}

\* The statuses recorded for (purpose, vendor): empty when there is no entry.
StatusesOf(consents, purpose, vendorId) ==
    {e[3] : e \in {x \in Entries(consents) : x[1] = purpose /\ x[2] = vendorId}}

\* A text that holds an object of the compressed shape.
IsCompressedObject(text) ==
    /\ text.kind = "json"
    /\ text.root.consents.t = "undefined"
    /\ text.root.purposes.t = "object"
    /\ text.root.vendors.t = "object"
    /\ text.root.purposes.v.enabled.t = "array"
    /\ text.root.purposes.v.disabled.t = "array"
    /\ text.root.vendors.v.enabled.t = "array"
    /\ text.root.vendors.v.disabled.t = "array"

\* The four id lists of a compressed object, as sets.
PE(text) == Range(text.root.purposes.v.enabled.v)
PD(text) == Range(text.root.purposes.v.disabled.v)
VE(text) == Range(text.root.vendors.v.enabled.v)
VD(text) == Range(text.root.vendors.v.disabled.v)

NoDuplicate(seq) == Cardinality(Range(seq)) = Len(seq)

\* Duplicate-free lists, disjoint within purposes and within vendors.
DisjointLists(text) ==
    /\ NoDuplicate(text.root.purposes.v.enabled.v)
    /\ NoDuplicate(text.root.purposes.v.disabled.v)
    /\ NoDuplicate(text.root.vendors.v.enabled.v)
    /\ NoDuplicate(text.root.vendors.v.disabled.v)
    /\ PE(text) \cap PD(text) = {}
    /\ VE(text) \cap VD(text) = {}

SameMembership(a, b) ==
    /\ PE(a) = PE(b)
    /\ PD(a) = PD(b)
    /\ VE(a) = VE(b)
    /\ VD(a) = VD(b)

\* status(p, v) = a(p) AND b(v) for every purpose and every vendor of the token
IsAndPattern(consents) ==
    \E a \in SUBSET PurposesOf(consents), b \in SUBSET VendorsOf(consents) :
        \A p \in PurposesOf(consents), v \in VendorsOf(consents) :
            StatusesOf(consents, p, v) =
                {IF p \in a /\ v \in b THEN JsTrue ELSE JsFalse}

\* token was decoded from a well-formed compressed object and not changed since
DecodedFromDisjointLists ==
    /\ origin.from \in {"input", "encoder"}
    /\ IsCompressedObject(origin.text)
    /\ DisjointLists(origin.text)

---------------------------------------------------------------------------
(* Properties of the compression codec (src/src/token.js) *)

\* C1: CWTFromCompressedJSON on duplicate-free, disjoint lists records, for
\* every listed purpose p and listed vendor v, exactly one entry, with status
\* true when p is an enabled purpose and v an enabled vendor and false
\* otherwise, and records no other entry.
C1_CrossProduct ==
    (last.op = "CWTFromCompressedJSON" /\ DecodedFromDisjointLists) =>
        /\ ~token.null
        /\ Entries(token.consents) =
               {<<p, v, IF p \in PE(origin.text) /\ v \in VE(origin.text)
                        THEN JsTrue ELSE JsFalse>> :
                   p \in PE(origin.text) \cup PD(origin.text),
                   v \in VE(origin.text) \cup VD(origin.text)}
        /\ Cardinality(EntryPositions(token.consents)) =
               Cardinality(PE(origin.text) \cup PD(origin.text))
                   * Cardinality(VE(origin.text) \cup VD(origin.text))

C1_Witness ==
    /\ last.op = "CWTFromCompressedJSON"
    /\ origin.from = "input"
    /\ DecodedFromDisjointLists
    /\ Cardinality(PE(origin.text)) = 1
    /\ Cardinality(PD(origin.text)) = 1
    /\ Cardinality(VE(origin.text)) = 1
    /\ Cardinality(VD(origin.text)) = 1
    /\ Cardinality(Entries(token.consents)) = 4

\* C2: toCompressedJSON lists a purpose of the token as disabled exactly when
\* every vendor entry under it has status false (so also when it has no vendor
\* entry), and as enabled exactly when it does not.
C2_PurposeClassification ==
    last.op = "toCompressedJSON" =>
        \A i \in DOMAIN token.consents :
            LET c == token.consents[i]
                allFalse == \A j \in DOMAIN c.vendors : c.vendors[j].status = JsFalse
            IN  /\ c.purpose \in PD(last.text) <=> allFalse
                /\ c.purpose \in PE(last.text) <=> ~allFalse

C2_Witness ==
    /\ last.op = "toCompressedJSON"
    /\ \E i \in DOMAIN token.consents :
          /\ token.consents[i].vendors = <<>>
          /\ token.consents[i].purpose \in PD(last.text)
    /\ \E i \in DOMAIN token.consents :
          /\ token.consents[i].vendors # <<>>
          /\ \A j \in DOMAIN token.consents[i].vendors :
                token.consents[i].vendors[j].status = Undefined
          /\ token.consents[i].purpose \in PE(last.text)

\* C3: toCompressedJSON lists a vendor id of the token as enabled exactly when
\* the vendor has a recorded status of true under every purpose it listed as
\* enabled, and as disabled exactly when it does not; entries under disabled
\* purposes play no part.
C3_VendorClassification ==
    last.op = "toCompressedJSON" =>
        \A v \in VendorsOf(token.consents) :
            LET allTrue == \A p \in PE(last.text) :
                               StatusesOf(token.consents, p, v) = {JsTrue}
            IN  /\ v \in VE(last.text) <=> allTrue
                /\ v \in VD(last.text) <=> ~allTrue

C3_Witness ==
    /\ last.op = "toCompressedJSON"
    /\ PE(last.text) # {}
    /\ \E v \in VE(last.text), p \in PD(last.text) :
          StatusesOf(token.consents, p, v) = {JsFalse}
    /\ \E v \in VD(last.text), p \in PE(last.text) :
          StatusesOf(token.consents, p, v) = {}

\* The token was decoded from the text toCompressedJSON returned for a token
\* that follows the AND pattern, and has just been encoded again.
C4_Case ==
    /\ last.op = "toCompressedJSON"
    /\ origin.from = "encoder"
    /\ IsAndPattern(origin.source.consents)

\* C4 as claimed: for every token T that follows the AND pattern, encoding
\* the token decoded from T's compressed form gives the same four sets as
\* encoding T.
C4_Original ==
    C4_Case => SameMembership(last.text, origin.text)

\* C4: the same, for the tokens T that have a vendor entry or no consent.
C4_RoundTripOfEncoded ==
    (/\ C4_Case
     /\ \/ VendorsOf(origin.source.consents) # {}
        \/ PurposesOf(origin.source.consents) = {})
        => SameMembership(last.text, origin.text)

C4_Witness ==
    /\ C4_Case
    /\ Cardinality(PurposesOf(origin.source.consents)) = 2
    /\ Cardinality(VendorsOf(origin.source.consents)) = 2
    /\ PE(origin.text) # {}
    /\ PD(origin.text) # {}
    /\ VE(origin.text) # {}
    /\ VD(origin.text) # {}
    /\ SameMembership(last.text, origin.text)

\* The token decoded from duplicate-free, disjoint lists has been encoded.
C5_Case ==
    /\ last.op = "toCompressedJSON"
    /\ DecodedFromDisjointLists

\* C5 as claimed: encoding the token decoded from a compressed object C gives
\* the four sets of C, also when some of the lists of C are empty.
C5_Original ==
    C5_Case => SameMembership(last.text, origin.text)

\* The compressed objects the encoder gives back unchanged.
C5_Exact(text) ==
    \/ PE(text) \cup PD(text) \cup VE(text) \cup VD(text) = {}
    \/ /\ VE(text) # {}
       /\ \/ PE(text) # {}
          \/ PD(text) # {} /\ VD(text) = {}

\* C5: encoding the token decoded from C gives the four sets of C exactly when
\* all four lists are empty, or vendors.enabled is non-empty and either
\* purposes.enabled is non-empty or purposes.disabled is non-empty and
\* vendors.disabled is empty.
C5_RoundTripOfDecoded ==
    C5_Case => (SameMembership(last.text, origin.text) <=> C5_Exact(origin.text))

C5_Witness ==
    /\ C5_Case
    /\ origin.from = "input"
    /\ PE(origin.text) # {}
    /\ PD(origin.text) # {}
    /\ VE(origin.text) # {}
    /\ VD(origin.text) # {}
    /\ SameMembership(last.text, origin.text)

---------------------------------------------------------------------------
(* Properties of the consent queries *)

\* The vendors of the consent that scopeToken holds for a purpose.
ScopeVendors(purpose) ==
    UNION {{scopeToken.consents[i].vendors[j] :
               j \in DOMAIN scopeToken.consents[i].vendors} :
           i \in {k \in DOMAIN scopeToken.consents :
                     scopeToken.consents[k].purpose = purpose}}

\* The vendors selected for a query: the one with the id, else the wildcard.
SelectedVendors(purpose, vendorId) ==
    LET exact == {v \in ScopeVendors(purpose) : v.id = vendorId}
    IN  IF exact # {} THEN exact
        ELSE {v \in ScopeVendors(purpose) : v.id = "*"}

\* C6: hasConsent returns false when the token has no Consent for the
\* purpose, and true when it has one and no vendorId is supplied, whatever
\* the scopeId and whatever the Consent holds.
C6_PurposeOnly ==
    last.op = "hasConsent" =>
        /\ last.purpose \notin PurposesOf(scopeToken.consents) => last.ret = JsFalse
        /\ (/\ last.purpose \in PurposesOf(scopeToken.consents)
            /\ last.vendorId = NotSupplied) => last.ret = JsTrue

C6_Witness ==
    /\ last.op = "hasConsent"
    /\ last.purpose \in PurposesOf(scopeToken.consents)
    /\ ScopeVendors(last.purpose) = {}
    /\ last.vendorId = NotSupplied
    /\ last.scopeId = "site"
    /\ last.ret = JsTrue

\* C7: hasConsent(purpose, vendorId) without a scopeId, on a token with a
\* Consent for the purpose, returns true exactly when the Consent lists
\* vendorId or the wildcard vendor.
C7_VendorOrWildcard ==
    (/\ last.op = "hasConsent"
     /\ last.purpose \in PurposesOf(scopeToken.consents)
     /\ last.vendorId # NotSupplied
     /\ last.scopeId = NotSupplied) =>
        (last.ret = JsTrue <=>
            \E v \in ScopeVendors(last.purpose) : v.id \in {last.vendorId, "*"})

C7_Witness ==
    /\ last.op = "hasConsent"
    /\ last.vendorId = "liveramp"
    /\ last.scopeId = NotSupplied
    /\ \E v \in ScopeVendors(last.purpose) : v.id = "*"
    /\ last.ret = JsTrue

\* C8: hasConsent(purpose, vendorId, scopeId) with a vendorId and a scopeId
\* returns true only if the vendor selected for the query (the one with the
\* id, else the wildcard vendor) literally holds scopeId; a selected vendor
\* that holds the wildcard scope alone gives false for every other scopeId.
C8_ScopeOfSelectedVendor ==
    (/\ last.op = "hasConsent"
     /\ last.vendorId # NotSupplied
     /\ last.scopeId # NotSupplied) =>
        /\ last.ret = JsTrue =>
              \E v \in SelectedVendors(last.purpose, last.vendorId) :
                  last.scopeId \in Range(v.scopes)
        /\ (/\ last.scopeId # "*"
            /\ \E v \in SelectedVendors(last.purpose, last.vendorId) :
                  v.scopes = <<"*">>) => last.ret = JsFalse

C8_Witness ==
    /\ last.op = "hasConsent"
    /\ last.vendorId = "liveramp"
    /\ last.scopeId = "site"
    /\ \E v \in SelectedVendors(last.purpose, last.vendorId) :
          v.id = "*" /\ v.scopes = <<"*">>
    /\ last.ret = JsFalse

\* C9: right after addConsent(p, v, s) with p, v and s supplied, hasConsent(p),
\* hasConsent(p, v) and hasConsent(p, v, s) are true.
C9_AddThenHas ==
    (last.op = "addConsent" /\ last.scopeId # NotSupplied) =>
        /\ hasConsent(scopeToken.consents, last.purpose, NotSupplied, NotSupplied)
        /\ hasConsent(scopeToken.consents, last.purpose, last.vendorId, NotSupplied)
        /\ hasConsent(scopeToken.consents, last.purpose, last.vendorId, last.scopeId)

C9_Witness ==
    /\ last.op = "addConsent"
    /\ last.scopeId = "site"
    /\ calls = MaxCalls
    /\ \E v \in ScopeVendors(last.purpose) :
          v.id = last.vendorId /\ v.scopes = <<"*", "site">>
    /\ \E v \in ScopeVendors(last.purpose) : v.id = "*" /\ v.id # last.vendorId

\* C10: getConsentStatus returns the status of the entry with the vendor id
\* under the purpose if there is one, else the status of the wildcard entry
\* under the purpose if there is one, else undefined.
C10_ThreeValued ==
    last.op = "getConsentStatus" =>
        LET exact == StatusesOf(token.consents, last.purpose, last.vendorId)
            wildcard == StatusesOf(token.consents, last.purpose, "*")
        IN  IF exact # {} THEN exact = {last.ret}
            ELSE IF wildcard # {} THEN wildcard = {last.ret}
            ELSE last.ret = Undefined

C10_Witness ==
    /\ last.op = "getConsentStatus"
    /\ last.vendorId = "liveramp"
    /\ StatusesOf(token.consents, last.purpose, "*") = {JsFalse}
    /\ StatusesOf(token.consents, last.purpose, "didomi") = {JsTrue}
    /\ last.ret = JsFalse


---------------------------------------------------------------------------
(* C11: last write wins.  For every (purpose, vendor) pair the client has
   set with setConsentStatus since it obtained the token, the token holds
   exactly one vendor entry, and getConsentStatus(purpose, vendor) is the
   status given by the most recent setConsentStatus call for the pair. *)
C11_LastWriteWins ==
    ~token.null =>
        \A pair \in DOMAIN written :
            written[pair] # <<>> =>
                /\ Cardinality({pos \in EntryPositions(token.consents) :
                                    /\ token.consents[pos[1]].purpose = pair[1]
                                    /\ token.consents[pos[1]].vendors[pos[2]].id = pair[2]}) = 1
                /\ getConsentStatus(token.consents, pair[1], pair[2])
                       = written[pair][Len(written[pair])]

\* A pair was set at least twice, the last two times with different statuses,
\* on a token that holds other entries as well.
C11_Witness ==
    /\ ~token.null
    /\ \E pair \in DOMAIN written :
          /\ Len(written[pair]) >= 2
          /\ written[pair][Len(written[pair])] # written[pair][Len(written[pair]) - 1]
          /\ Cardinality(EntryPositions(token.consents)) >= 2


---------------------------------------------------------------------------
(* Vocabulary of the properties about the parsing functions *)

JSONParsers == {"CWTFromJSON", "CWTFromCompressedJSON"}
Base64Parsers == {"CWTFromBase64", "CWTFromCompressedBase64"}
CompressedParsers == {"CWTFromCompressedJSON", "CWTFromCompressedBase64"}

\* A parsed root that is an object.
IsObjectText(text) == text.kind = "json" /\ RootKind(text.root) = "object"

\* An object that lacks one of the four lists of the compressed shape.
LacksAList(object) ==
    \/ object.purposes.t # "object"
    \/ object.vendors.t # "object"
    \/ JUndefined \in {Prop(object.purposes, "enabled"), Prop(object.purposes, "disabled"),
                       Prop(object.vendors, "enabled"), Prop(object.vendors, "disabled")}

\* A malformed text: absent or empty, not JSON, JSON whose root is not an
\* object, or, for a parser of the compressed shape, an object that lacks one
\* of the four lists.
MalformedText(text, op) ==
    \/ text.kind \in {"absent", "empty", "invalid"}
    \/ text.kind = "json" /\ RootKind(text.root) # "object"
    \/ IsObjectText(text) /\ op \in CompressedParsers /\ LacksAList(text.root)

\* A malformed input of the parsing function op.
MalformedInput(input, op) ==
    IF op \in JSONParsers THEN MalformedText(input, op)
    ELSE \/ input.kind \in {"absent", "empty", "invalid"}
         \/ input.kind = "base64" /\ MalformedText(input.of, op)

(* C12: each of CWTFromJSON, CWTFromCompressedJSON, CWTFromBase64 and
   CWTFromCompressedBase64 returns null and never raises an exception for
   every malformed input: absent or empty, not JSON (or not base64 of JSON),
   JSON whose root is not an object, an object missing a required field of
   the compressed shape. *)
C12_MalformedGivesNull ==
    (last.op \in JSONParsers \cup Base64Parsers /\ MalformedInput(last.text, last.op))
        => last.ret = "null"

\* The object carries the property.
Carries(object, name) == object[name] # JUndefined
\* The object exhibits the compressed shape, the non-compressed shape.
CompressedShape(object) == Carries(object, "purposes") \/ Carries(object, "vendors")
PlainShape(object) == Carries(object, "consents")

(* C13: the two wire shapes are mutually exclusive for both parsers.
   CWTFromJSON returns null for every object that carries purposes or
   vendors, CWTFromCompressedJSON returns null for every object that carries
   consents, and both return null for an object that exhibits both shapes or
   neither.  The texts toCompressedJSON and toJSON return are among the
   objects parsed, so that CWTFromJSON(T.toCompressedJSON()) and
   CWTFromCompressedJSON(T.toJSON()) are covered. *)
C13_ShapesExclusive ==
    (last.op \in JSONParsers /\ IsObjectText(last.text)) =>
        LET object == last.text.root
        IN  /\ (last.op = "CWTFromJSON" /\ CompressedShape(object)) => last.ret = "null"
            /\ (last.op = "CWTFromCompressedJSON" /\ PlainShape(object))
                   => last.ret = "null"
            /\ (CompressedShape(object) <=> PlainShape(object)) => last.ret = "null"

\* One of the four lists of the compressed shape is absent or is not an array.
SomeListNotAnArray(object) ==
    \E list \in {Prop(object.purposes, "enabled"), Prop(object.purposes, "disabled"),
                  Prop(object.vendors, "enabled"), Prop(object.vendors, "disabled")} :
        list.t # "array"

(* C14: CWTFromCompressedJSON returns null, without decoding anything,
   whenever any of purposes.enabled, purposes.disabled, vendors.enabled or
   vendors.disabled is absent or is not an array (a string, a number or a
   plain object). *)
C14_ListsAreArrays ==
    (/\ last.op = "CWTFromCompressedJSON"
     /\ IsObjectText(last.text)
     /\ SomeListNotAnArray(last.text.root))
        => (last.ret = "null" /\ token.null)


---------------------------------------------------------------------------
(* C15: the mutating operations addScope, addVendor, addConsent and
   setConsentStatus never fail, and a call whose identifier argument is empty
   or absent is a no-op: the token, its consent list and every vendor list
   are the same after the call as before it.  The identifier arguments
   counted here are the ones the operation requires: the purpose and the
   vendor id of setConsentStatus and addConsent, the vendor id of addVendor,
   the scope id of addScope. *)
C15_EmptyIdentifierIsNoOp ==
    [][(\/ /\ last'.op \in {"setConsentStatus", "addConsent"}
           /\ (last'.purpose \in EmptyIds \/ last'.vendorId \in EmptyIds)
        \/ /\ last'.op = "addVendor"
           /\ last'.vendorId \in EmptyIds
        \/ /\ last'.op = "addScope"
           /\ last'.scopeId \in EmptyIds)
       => UNCHANGED <<token, scopeToken, scopedVendor>>]_vars


---------------------------------------------------------------------------
\* The argument is an object.
IsObjectValue(x) == RootKind(x) = "object"

(* C16: Consent.fromObject is all-or-nothing.  It returns either null or a
   Consent whose purpose is a non-empty string and whose vendors list holds
   only Vendors; an argument whose vendors array holds an entry that
   Vendor.fromObject rejects yields null; an argument with a purpose whose
   vendors field is absent or not an array yields a Consent with an empty
   vendors list. *)
C16_AllOrNothing ==
    last.op = "Consent.fromObject" =>
        LET object == last.object
            consent == last.ret
        IN  /\ \/ consent = NullConsent
               \/ /\ consent.purpose \notin {"", Null, Undefined}
                  /\ \A i \in DOMAIN consent.vendors : consent.vendors[i] # NullVendor
            /\ (/\ IsObjectValue(object)
                /\ object.vendors.t = "array"
                /\ \E i \in DOMAIN object.vendors.v :
                       VendorFromObject(object.vendors.v[i]) = NullVendor)
                   => consent = NullConsent
            /\ (/\ IsObjectValue(object)
                /\ IsString(object.purpose) /\ Truthy(object.purpose)
                /\ object.vendors.t # "array")
                   => (consent # NullConsent /\ consent.vendors = <<>>)


---------------------------------------------------------------------------
(* C17: Vendor.fromObject returns a Vendor if and only if the argument is an
   object whose id is a non-empty string; the scopes of the Vendor are the
   argument's scopes when that field is an array and the empty list
   otherwise; every other argument yields null. *)
C17_VendorFromObject ==
    last.op = "Vendor.fromObject" =>
        LET object == last.object
            valid == /\ IsObjectValue(object)
                     /\ object.id.t = "id"
                     /\ object.id.v # ""
        IN  /\ valid <=> scopedVendor # NullVendor
            /\ valid => /\ scopedVendor.id = object.id.v
                        /\ scopedVendor.scopes = IF object.scopes.t = "array"
                                                  THEN object.scopes.v ELSE <<>>

\* Vendor.fromObject has returned a Vendor with the two scopes of its argument.
C17_Witness ==
    /\ last.op = "Vendor.fromObject"
    /\ scopedVendor # NullVendor
    /\ scopedVendor.id = "didomi"
    /\ scopedVendor.scopes = <<"site", "*">>

(* C18: Vendor.hasScope(scopeId, matchWildcard) returns true when
   matchWildcard is true (the default) and the scopes of the vendor contain
   "*"; in every other case it returns true if and only if scopeId is
   literally in the scopes.  So a vendor holding only "*" gives true for
   hasScope(x) and false for hasScope(x, false), for every x other than "*". *)
C18_HasScope ==
    last.op = "hasScope" =>
        LET scopes == Range(scopedVendor.scopes)
            matchWildcard == last.global \in {JsTrue, NotSupplied}
        IN  /\ (matchWildcard /\ "*" \in scopes) => last.ret = JsTrue
            /\ ~(matchWildcard /\ "*" \in scopes)
                   => (last.ret = JsTrue <=> last.scopeId \in scopes)
            /\ (scopes = {"*"} /\ last.scopeId # "*") =>
                   /\ last.global = NotSupplied => last.ret = JsTrue
                   /\ last.global = JsFalse => last.ret = JsFalse

\* A vendor holding only "*" was asked hasScope("app", false) and said false.
C18_Witness ==
    /\ last.op = "hasScope"
    /\ scopedVendor.scopes = <<"*">>
    /\ last.scopeId = "app"
    /\ last.global = JsFalse
    /\ last.ret = JsFalse

(* C19: Vendor.addScope is idempotent and order-preserving.  Starting from a
   duplicate-free scope list, every addScope call leaves the list
   duplicate-free, every scope already present keeps its position, a new
   non-empty scope is appended at the end, and adding a scope that is already
   present, or an empty or absent one, leaves the list unchanged. *)
C19_AddScopeIdempotent ==
    [][(/\ last'.op = "addScope"
        /\ scopedVendor # NullVendor
        /\ NoDuplicate(scopedVendor.scopes))
       => LET old == scopedVendor.scopes
              new == scopedVendor'.scopes
              scopeId == last'.scopeId
          IN  /\ NoDuplicate(new)
              /\ Len(new) >= Len(old)
              /\ \A i \in DOMAIN old : new[i] = old[i]
              /\ (scopeId \notin EmptyIds /\ scopeId \notin Range(old))
                     => new = Append(old, scopeId)
              /\ (scopeId \in EmptyIds \/ scopeId \in Range(old)) => new = old]_vars

\* After at least two addScope calls, the last one for a scope the list
\* holds, the list holds three scopes without repetition.
C19_Witness ==
    /\ last.op = "addScope"
    /\ calls >= 2
    /\ scopedVendor # NullVendor
    /\ Len(scopedVendor.scopes) = 3
    /\ NoDuplicate(scopedVendor.scopes)
    /\ last.scopeId \in Range(scopedVendor.scopes)


---------------------------------------------------------------------------
Migrators == {"toV2Compressed", "toV2NonCompressed"}

(* C20: the version migrators return a result only for an object tagged with
   the legacy version.  For null, an object already at the current version
   and an object with an unrecognized or absent version they return null;
   for a legacy-version object they return an object whose version equals
   the current version; so a migrator applied to its own result returns
   null. *)
C20_MigrationGate ==
    [][last'.op \in Migrators =>
          LET object == last'.object
              result == last'.ret
              legacy == /\ IsObjectValue(object)
                        /\ object.version = JNumber(LegacyVersion)
          IN  /\ ~legacy => result = JNull
              /\ legacy => /\ result # JNull
                           /\ result.version = JNumber(CurrentVersion)
              /\ (last.op = last'.op /\ object = last.ret) => result = JNull]_vars

\* toV2NonCompressed was applied to its own result, a current-version object
\* whose consent has the status of its wildcard vendor, and returned null.
C20_Witness ==
    /\ last.op = "toV2NonCompressed"
    /\ IsObjectValue(last.object)
    /\ last.object.version = JNumber(CurrentVersion)
    /\ \E i \in DOMAIN last.object.consents :
          /\ "status" \in DOMAIN last.object.consents[i]
          /\ last.object.consents[i].status = JsTrue
    /\ last.ret = JNull

---------------------------------------------------------------------------
\* The statuses recorded by the wildcard vendor entries of a consent.
WildcardStatuses(consent) ==
    {consent.vendors[j].status :
        j \in {k \in DOMAIN consent.vendors : consent.vendors[k].id = "*"}}

(* C21: migrating a non-compressed legacy object sets, for each consent that
   has a wildcard vendor entry (id "*"), the purpose-level status of the
   consent to the recorded status of that entry, leaves the status of a
   consent without a wildcard vendor entry unset, and changes nothing else
   except the version tag: the identity fields, the purposes, the vendor
   entries and their order are the same. *)
C21_WildcardGivesStatus ==
    (/\ last.op = "toV2NonCompressed"
     /\ IsObjectValue(last.object)
     /\ last.object.version = JNumber(LegacyVersion)) =>
        LET object == last.object
            result == last.ret
        IN  /\ result # JNull
            /\ result.version = JNumber(CurrentVersion)
            /\ result.user_id = object.user_id
            /\ DOMAIN result = DOMAIN object
            /\ Len(result.consents) = Len(object.consents)
            /\ \A i \in DOMAIN object.consents :
                   /\ result.consents[i].purpose = object.consents[i].purpose
                   /\ result.consents[i].vendors = object.consents[i].vendors
                   /\ IF WildcardStatuses(object.consents[i]) # {}
                      THEN WildcardStatuses(object.consents[i])
                               = {result.consents[i].status}
                      ELSE result.consents[i].status = Undefined

\* A legacy object was migrated whose first consent has no wildcard vendor
\* entry and whose second consent has one, recording false, after another
\* vendor entry.
C21_Witness ==
    /\ last.op = "toV2NonCompressed"
    /\ IsObjectValue(last.object)
    /\ last.object.version = JNumber(LegacyVersion)
    /\ Len(last.object.consents) = 2
    /\ last.object.consents[1].vendors = <<[id |-> "didomi", status |-> JsTrue]>>
    /\ last.object.consents[2].vendors =
           <<[id |-> "didomi", status |-> JsTrue], [id |-> "*", status |-> JsFalse]>>
    /\ last.ret.consents[1].status = Undefined
    /\ last.ret.consents[2].status = JsFalse


---------------------------------------------------------------------------
\* The schema version of the library: what the constructor writes.
SchemaVersion == 1

(* C22: every token returned by the constructor or by one of the four
   parsing functions carries the schema version of the library, whatever
   version tag the input carried (an earlier one, the current one, an
   unrecognized one or none), and no sequence of setConsentStatus or
   addConsent calls changes the version of the token. *)
C22_VersionIsCurrent ==
    /\ ~token.null => token.version = SchemaVersion
    /\ ~scopeToken.null => scopeToken.version = SchemaVersion

\* CWTFromCompressedBase64 has returned a token for an object tagged with a
\* version other than the version of the library.
C22_Witness ==
    /\ last.op = "CWTFromCompressedBase64"
    /\ last.ret = "token"
    /\ last.text.of.root.version = JNumber(7)
    /\ token.consents # <<>>
    /\ token.version = SchemaVersion


---------------------------------------------------------------------------
\* Every vendor entry of the consents list has a boolean status.
BooleanStatuses(consents) ==
    \A e \in Entries(consents) : e[3] \in StatusValues

\* The token has just been parsed, by the parser of the same format, from
\* what toJSON or toBase64 returned for the token origin.source.
C23_Case ==
    /\ origin.from = "encoder"
    /\ ~origin.source.null
    /\ \/ last.op = "CWTFromJSON" /\ origin.text = toJSON(origin.source)
       \/ last.op = "CWTFromBase64" /\ origin.text = toBase64(origin.source)

\* toJSON or toBase64 has been called on the token.
C23_Serialized == last.op \in {"toJSON", "toBase64"}

(* C23: the non-compressed serialization round-trips.  For every token T
   whose vendor entries all have a boolean status, the tokens reachable from
   the constructor by setConsentStatus calls among them, T.toJSON() and
   T.toBase64() return a string, and CWTFromJSON(T.toJSON()) and
   CWTFromBase64(T.toBase64()) are tokens, not null, equal to T in issuer,
   user_id, user_id_type, user_id_hash_method, version and in the ordered
   list of consents with their ordered vendor entries and statuses. *)
C23_RoundTrip ==
    /\ (C23_Serialized /\ BooleanStatuses(token.consents)) =>
           last.text.kind \in {"json", "base64"}
    /\ (C23_Case /\ BooleanStatuses(origin.source.consents)) =>
           /\ last.ret = "token"
           /\ ~token.null
           /\ token.issuer = origin.source.issuer
           /\ token.user_id = origin.source.user_id
           /\ token.user_id_type = origin.source.user_id_type
           /\ token.user_id_hash_method = origin.source.user_id_hash_method
           /\ token.version = origin.source.version
           /\ token.consents = origin.source.consents

---------------------------------------------------------------------------
\* The purposes of a consents list and the ids of a vendors list, in order.
PurposeOrder(consents) == [i \in DOMAIN consents |-> consents[i].purpose]
VendorOrder(vendors) == [j \in DOMAIN vendors |-> vendors[j].id]

\* The purposes and the vendors a compressed object lists, enabled ones first.
ListedPurposes(text) ==
    text.root.purposes.v.enabled.v \o text.root.purposes.v.disabled.v
ListedVendors(text) ==
    text.root.vendors.v.enabled.v \o text.root.vendors.v.disabled.v

(* C24: for duplicate-free, disjoint lists, CWTFromCompressedJSON
   materializes the consents in the order: the purposes of purposes.enabled
   in their listed order, then the purposes of purposes.disabled in their
   listed order; and within every consent the vendor entries are in the
   order: the vendors of vendors.enabled in listed order, then the vendors of
   vendors.disabled in listed order.  (No consent is materialized when no
   vendor is listed.) *)
C24_DecodeOrder ==
    (last.op = "CWTFromCompressedJSON" /\ DecodedFromDisjointLists) =>
        /\ ~token.null
        /\ PurposeOrder(token.consents) =
               IF ListedVendors(origin.text) = <<>> THEN <<>>
               ELSE ListedPurposes(origin.text)
        /\ \A i \in DOMAIN token.consents :
               VendorOrder(token.consents[i].vendors) = ListedVendors(origin.text)

\* An object listing two enabled purposes, an enabled and a disabled vendor
\* was decoded into two consents of two vendor entries each.
C24_Witness ==
    /\ last.op = "CWTFromCompressedJSON"
    /\ origin.from = "input"
    /\ DecodedFromDisjointLists
    /\ ListedPurposes(origin.text) = <<"cookies", "analytics">>
    /\ origin.text.root.vendors.v.enabled.v = <<"didomi">>
    /\ origin.text.root.vendors.v.disabled.v = <<"*">>
    /\ PurposeOrder(token.consents) = <<"cookies", "analytics">>
    /\ VendorOrder(token.consents[2].vendors) = <<"didomi", "*">>

---------------------------------------------------------------------------
\* No two consents with the same purpose and, within every consent, no two
\* vendor entries with the same id.
UniqueEntries(consents) ==
    /\ NoDuplicate(PurposeOrder(consents))
    /\ \A i \in DOMAIN consents : NoDuplicate(VendorOrder(consents[i].vendors))

(* C25: uniqueness.  In every state reachable by any sequence of addConsent
   and setConsentStatus calls, from an empty token and from every other
   token the client obtains, no two consents of the token have the same
   purpose and, within every consent, no two vendor entries have the same
   id. *)
C25_Uniqueness ==
    /\ ~token.null => UniqueEntries(token.consents)
    /\ ~scopeToken.null => UniqueEntries(scopeToken.consents)

\* Three setConsentStatus calls, two of them for the pair of the last call,
\* have left two consents of one vendor entry each.
C25_Witness ==
    /\ last.op = "setConsentStatus"
    /\ calls = 3
    /\ Len(written[<<last.purpose, last.vendorId>>]) = 2
    /\ Len(token.consents) = 2
    /\ Cardinality(EntryPositions(token.consents)) = 2
    /\ UniqueEntries(token.consents)

---------------------------------------------------------------------------
\* What the caller and what it has constructed hold, in the memory m: the
\* consents of the caller's object, of the token k; the scopes of the caller,
\* of the vendor k; the consents, with their scopes, of the token k of
\* src/unnamed/part_001.
CallerConsents(m) == m.heap[m.object.consents.v]
SharedConsents(m, k) == m.heap[m.tokens[k].consents]
CallerScopes(m) == m.heap[m.scopes.v]
VendorScopes(m, k) == m.heap[m.vendors[k].scopes]
ScopedConsents(m, k) == Dereferenced(m.scoped[k].consents, m.heap)

(* C26: a token exclusively owns its consent data.  After a token is
   constructed from an object of the caller, or a Vendor from a scopes array
   of the caller, a mutation of the token or vendor through setConsentStatus,
   addConsent or addScope changes neither the object of the caller nor any
   other token or vendor constructed from the same object, and a later change
   of the object by the caller does not change the token or vendor. *)
C26_ExclusiveOwnership ==
    [][/\ last'.op = "setConsentStatus" =>
             /\ Truthy(mem.object.consents) => CallerConsents(mem') = CallerConsents(mem)
             /\ \A k \in DOMAIN mem.tokens \ {last'.target} :
                    SharedConsents(mem', k) = SharedConsents(mem, k)
       /\ last'.op = "addScope" =>
             /\ CallerScopes(mem') = CallerScopes(mem)
             /\ \A k \in DOMAIN mem.vendors \ {last'.target} :
                    VendorScopes(mem', k) = VendorScopes(mem, k)
             /\ \A k \in DOMAIN mem.scoped :
                    ScopedConsents(mem', k) = ScopedConsents(mem, k)
       /\ last'.op = "addConsent" =>
             /\ CallerScopes(mem') = CallerScopes(mem)
             /\ \A k \in DOMAIN mem.vendors :
                    VendorScopes(mem', k) = VendorScopes(mem, k)
             /\ \A k \in DOMAIN mem.scoped \ {last'.target} :
                    ScopedConsents(mem', k) = ScopedConsents(mem, k)
       /\ last'.op = "consents.push" =>
             \A k \in DOMAIN mem.tokens :
                 SharedConsents(mem', k) = SharedConsents(mem, k)
       /\ last'.op = "scopes.push" =>
             /\ \A k \in DOMAIN mem.vendors :
                    VendorScopes(mem', k) = VendorScopes(mem, k)
             /\ \A k \in DOMAIN mem.scoped :
                    ScopedConsents(mem', k) = ScopedConsents(mem, k)]_vars

---------------------------------------------------------------------------
(* C27: setConsentStatus(status, p, v) changes only the stored status of the
   (p, v) entry.  Every other (purpose, vendor) entry keeps its stored
   status, every consent and every vendor entry that was there keeps its
   position, a newly created consent is appended at the end of the consent
   list and a newly created vendor entry at the end of the vendor list of
   that consent, and the identity fields and the version are unchanged. *)
C27_OnlyOneStatus ==
    [][(last'.op = "setConsentStatus" /\ ~token.null) =>
          LET old == token.consents
              new == token'.consents
              p == last'.purpose
              v == last'.vendorId
              entry == [id |-> v, status |-> last'.status]
          IN  /\ token'.issuer = token.issuer
              /\ token'.user_id = token.user_id
              /\ token'.user_id_type = token.user_id_type
              /\ token'.user_id_hash_method = token.user_id_hash_method
              /\ token'.version = token.version
              /\ \A i \in DOMAIN old :
                     /\ new[i].purpose = old[i].purpose
                     /\ \A j \in DOMAIN old[i].vendors :
                            /\ new[i].vendors[j].id = old[i].vendors[j].id
                            /\ IF old[i].purpose = p /\ old[i].vendors[j].id = v
                               THEN new[i].vendors[j] = entry
                               ELSE new[i].vendors[j] = old[i].vendors[j]
                     /\ Len(new[i].vendors) =
                            IF old[i].purpose = p /\ v \notin Range(VendorOrder(old[i].vendors))
                            THEN Len(old[i].vendors) + 1
                            ELSE Len(old[i].vendors)
                     /\ Len(new[i].vendors) > Len(old[i].vendors) =>
                            new[i].vendors[Len(new[i].vendors)] = entry
              /\ IF p \in PurposesOfList(old)
                 THEN Len(new) = Len(old)
                 ELSE new = Append(old, [purpose |-> p, vendors |-> <<entry>>])]_vars

\* The third setConsentStatus call has written the status of the first
\* entry of a consent, on a token of two consents where the later entry of
\* the same consent and an entry of the other consent hold the other status.
C27_Witness ==
    /\ last.op = "setConsentStatus"
    /\ calls = 3
    /\ Len(written[<<last.purpose, last.vendorId>>]) >= 1
    /\ Len(token.consents) = 2
    /\ \E i \in DOMAIN token.consents :
          /\ token.consents[i].purpose = last.purpose
          /\ Len(token.consents[i].vendors) = 2
          /\ token.consents[i].vendors[1] = [id |-> last.vendorId, status |-> last.status]
          /\ token.consents[i].vendors[2].status \notin {last.status, Undefined}
    /\ \E i \in DOMAIN token.consents :
          /\ token.consents[i].purpose # last.purpose
          /\ \E j \in DOMAIN token.consents[i].vendors :
                token.consents[i].vendors[j].status \notin {last.status, Undefined}

---------------------------------------------------------------------------
(* C28: consent is monotone under addition.  On a token changed only through
   addConsent, once hasConsent(p, v, s) is true for a purpose p, a vendor v,
   possibly absent, and a scope s, possibly absent, it is true after every
   later addConsent call, whatever its arguments. *)
C28_MonotoneConsent ==
    [][(last'.op = "addConsent" /\ ~scopeToken.null) =>
          \A p \in PurposeIds, v \in QueryVendorIds \cup {NotSupplied},
             s \in QueryScopeIds :
              hasConsent(scopeToken.consents, p, v, s)
                  => hasConsent(scopeToken'.consents, p, v, s)]_vars

---------------------------------------------------------------------------
\* The consents of a list for a purpose, the vendor entries of a consent for
\* an id, as positions.
ConsentsFor(consents, purpose) ==
    {i \in DOMAIN consents : consents[i].purpose = purpose}
EntriesFor(vendors, id) == {j \in DOMAIN vendors : vendors[j].id = id}

\* The token has just been decoded from a compressed object, its lists
\* duplicate-free, disjoint or not.
DecodedFromLists ==
    /\ last.op = "CWTFromCompressedJSON"
    /\ origin.from \in {"input", "encoder"}
    /\ IsCompressedObject(origin.text)
    /\ ~token.null

\* Every vendor entry of every consent for a purpose listed as enabled and as
\* disabled has status false, and every entry of a vendor listed as enabled
\* and as disabled has status false and is the only one of its consent.
C29_StatusesAreFalse ==
    /\ \A p \in PE(origin.text) \cap PD(origin.text) :
           \A i \in ConsentsFor(token.consents, p) :
               \A j \in DOMAIN token.consents[i].vendors :
                   token.consents[i].vendors[j].status = JsFalse
    /\ \A v \in VE(origin.text) \cap VD(origin.text) :
           \A i \in DOMAIN token.consents :
               /\ Cardinality(EntriesFor(token.consents[i].vendors, v)) = 1
               /\ \A j \in EntriesFor(token.consents[i].vendors, v) :
                      token.consents[i].vendors[j].status = JsFalse

\* C29 as claimed: the disabled listing wins, and every purpose listed as
\* enabled and as disabled yields exactly one consent, also when no vendor is
\* listed.
C29_Original ==
    DecodedFromLists =>
        /\ C29_StatusesAreFalse
        /\ \A p \in PE(origin.text) \cap PD(origin.text) :
               Cardinality(ConsentsFor(token.consents, p)) = 1

(* C29: when CWTFromCompressedJSON is given an id listed both as enabled and
   as disabled, the disabled listing wins.  A purpose in purposes.enabled and
   in purposes.disabled ends with status false for every vendor, and a vendor
   in vendors.enabled and in vendors.disabled ends with status false under
   every purpose.  Such a vendor yields exactly one vendor entry per consent;
   such a purpose yields exactly one consent when a vendor is listed, and no
   consent when none is. *)
C29_DisabledWins ==
    DecodedFromLists =>
        /\ C29_StatusesAreFalse
        /\ \A p \in PE(origin.text) \cap PD(origin.text) :
               Cardinality(ConsentsFor(token.consents, p)) =
                   IF ListedVendors(origin.text) = <<>> THEN 0 ELSE 1

\* Decoded: cookies listed as enabled and as disabled, analytics as enabled
\* only, didomi as enabled and as disabled, the wildcard vendor as enabled
\* only.  Only the entry of analytics for the wildcard vendor is true.
C29_Witness ==
    /\ DecodedFromLists
    /\ origin.from = "input"
    /\ PE(origin.text) = {"cookies", "analytics"}
    /\ PD(origin.text) = {"cookies"}
    /\ VE(origin.text) = {"didomi", "*"}
    /\ VD(origin.text) = {"didomi"}
    /\ Len(token.consents) = 2
    /\ Cardinality(EntryPositions(token.consents)) = 4
    /\ {e \in Entries(token.consents) : e[3] = JsTrue} = {<<"analytics", "*", JsTrue>>}

---------------------------------------------------------------------------
(* C30: CWTFromCompressedJSON creates a consent for a listed purpose only
   through a (purpose, vendor) pair.  When vendors.enabled and
   vendors.disabled are both empty the returned token has an empty consents
   list however many purposes are listed; when at least one vendor is listed
   the returned token has exactly one consent per distinct listed purpose,
   and no other consent. *)
C30_ConsentsThroughPairs ==
    DecodedFromLists =>
        IF ListedVendors(origin.text) = <<>>
        THEN token.consents = <<>>
        ELSE /\ PurposesOf(token.consents) = PE(origin.text) \cup PD(origin.text)
             /\ \A p \in PE(origin.text) \cup PD(origin.text) :
                    Cardinality(ConsentsFor(token.consents, p)) = 1

\* Decoded: one purpose listed as enabled, another as disabled, and no vendor
\* in either list.  The token has no consent.
C30_Witness ==
    /\ DecodedFromLists
    /\ origin.from = "input"
    /\ PE(origin.text) = {"cookies"}
    /\ PD(origin.text) = {"analytics"}
    /\ ListedVendors(origin.text) = <<>>
    /\ token.consents = <<>>

=============================================================================
